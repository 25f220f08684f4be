------------------------- MODULE TenantConfigCache -------------------------
(***************************************************************************)
(* The configuration of one tenant: its row in tenant_configs, and the     *)
(* copy of it in Redis that TenantService reads first and that lives for   *)
(* five minutes.                                                           *)
(*                                                                         *)
(* A request has a database session of its own, which get_async_session    *)
(* commits after the handler has returned and rolls back if it raised.     *)
(* Whatever TenantService does to the cache therefore happens before the   *)
(* commit.  The admin pages write the row in sessions of their own and     *)
(* know nothing of the cache.                                              *)
(*                                                                         *)
(* A configuration is its version: every transaction that writes the row   *)
(* writes a new one.  Version 0 stands for no tenant and no entry.         *)
(***************************************************************************)
EXTENDS Naturals

CONSTANTS
    Requests,        \* API requests that are handled at the same time
    ResponseBuilds,  \* can update_tenant's handler build its response?
                     \* FALSE in the code, which leaves out required fields
    MaxVersion,      \* bound: transactions that write the row
    MaxFaults        \* bound: Redis errors, failed commits, lost processes

ASSUME TenantConfigCacheAssumption ==
    /\ ResponseBuilds \in BOOLEAN
    /\ MaxVersion \in Nat /\ MaxFaults \in Nat

VARIABLES
    row,      \* the committed row of tenant_configs
    cache,    \* the entry tenant:config:{tenant_id}
    last,     \* the last version some transaction has written
    pc,       \* where a request stands
    copy,     \* the configuration it read, or the one it is writing
    faults,   \* faults so far
    excused   \* history: versions for whose survival in the cache there is
              \* a cause: see StaleHasCause

vars == <<row, cache, last, pc, copy, faults, excused>>

None == 0

TypeOK ==
    /\ row \in Nat /\ cache \in Nat /\ last \in Nat /\ faults \in Nat
    /\ pc \in [Requests -> {"idle", "query", "store", "key", "cachenew",
                            "commit", "invalidate", "respond", "forget"}]
    /\ copy \in [Requests -> Nat]
    /\ \A r \in Requests : pc[r] \in {"idle", "query", "forget"} => copy[r] = None
    /\ excused \subseteq Nat

Init ==
    /\ row = None /\ cache = None /\ last = None /\ faults = 0
    /\ pc = [r \in Requests |-> "idle"]
    /\ copy = [r \in Requests |-> None]
    /\ excused = {}

-----------------------------------------------------------------------------
Goto(r, step) == pc' = [pc EXCEPT ![r] = step]
Hold(r, version) == copy' = [copy EXCEPT ![r] = version]

\* The request is answered, and its session closed.
Finish(r) == Goto(r, "idle") /\ Hold(r, None)

Fault ==
    /\ faults < MaxFaults
    /\ faults' = faults + 1

Smooth == UNCHANGED faults

\* A new version; its writer holds the row, or the unique key of the row to
\* be, until its transaction ends.
Locked == \E r \in Requests : pc[r] \in {"key", "cachenew", "commit",
                                         "invalidate", "respond"}
NewVersion ==
    /\ ~Locked
    /\ last < MaxVersion
    /\ last' = last + 1

-----------------------------------------------------------------------------
(* get_tenant_config: webhooks, dependencies, admin reads.                 *)

\* No entry, or Redis does not answer: the database is asked.  (A hit changes
\* nothing.)
MissCache(r) ==
    /\ pc[r] = "idle"
    /\ (cache = None /\ Smooth) \/ Fault
    /\ Goto(r, "query")
    /\ UNCHANGED <<row, cache, last, copy, excused>>

\* The committed row, if there is one; else TenantNotFoundException.
QueryRow(r) ==
    /\ pc[r] = "query"
    /\ IF row = None THEN Finish(r)
                     ELSE Goto(r, "store") /\ Hold(r, row)
    /\ excused' = IF \E q \in Requests : pc[q] = "respond"
                  THEN excused \cup {row} ELSE excused
    /\ UNCHANGED <<row, cache, last, faults>>

\* Broken variant of StoreEntry: the request keeps what it has read.
StoreEntryKeeping(r) ==
    /\ pc[r] = "store"
    /\ cache' = copy[r]
    /\ Goto(r, "idle")
    /\ UNCHANGED <<row, last, copy, faults, excused>>

\* setex, whose failure is logged and forgotten.
StoreEntry(r) ==
    /\ pc[r] = "store"
    /\ \/ cache' = copy[r] /\ Smooth
       \/ UNCHANGED cache /\ Fault
    /\ Finish(r)
    /\ UNCHANGED <<row, last, excused>>

-----------------------------------------------------------------------------
(* create_tenant.                                                          *)

\* The row is flushed; an existing tenant_id is an IntegrityError.
CreateTenant(r) ==
    /\ pc[r] = "idle"
    /\ row = None
    /\ NewVersion
    /\ Hold(r, last + 1)
    /\ Goto(r, "key")
    /\ UNCHANGED <<row, cache, faults, excused>>

\* The virtual key: without one the creation is rolled back, unless the error
\* is an unexpected one, which leaves the tenant without a key.
CreateVirtualKey(r) ==
    /\ pc[r] = "key"
    /\ (Goto(r, "cachenew") /\ UNCHANGED copy) \/ Finish(r)
    /\ UNCHANGED <<row, cache, last, faults, excused>>

\* The new configuration is cached while its row is not committed yet.
CacheNewTenant(r) ==
    /\ pc[r] = "cachenew"
    /\ \/ cache' = copy[r] /\ Smooth
       \/ UNCHANGED cache /\ Fault
    /\ Goto(r, "commit")
    /\ UNCHANGED <<row, last, copy, excused>>

\* get_async_session commits, or the commit fails.
CommitTenant(r) ==
    /\ pc[r] = "commit"
    /\ \/ /\ row' = copy[r]
          /\ Smooth
          /\ UNCHANGED excused
       \/ /\ Fault
          /\ excused' = excused \cup {copy[r]}
          /\ UNCHANGED row
    /\ Finish(r)
    /\ UNCHANGED <<cache, last>>

-----------------------------------------------------------------------------
(* update_tenant.                                                          *)

\* The row is loaded, changed and flushed.
UpdateTenant(r) ==
    /\ pc[r] = "idle"
    /\ row # None
    /\ NewVersion
    /\ Hold(r, last + 1)
    /\ Goto(r, "invalidate")
    /\ UNCHANGED <<row, cache, faults, excused>>

InFlight == {copy[q] : q \in {p \in Requests : pc[p] = "store"}}

\* Broken variant of InvalidateEntry: the entry is left to its time to live.
InvalidateNothing(r) ==
    /\ pc[r] = "invalidate"
    /\ Smooth
    /\ excused' = excused \cup InFlight
    /\ Goto(r, "respond")
    /\ UNCHANGED <<row, cache, last, copy>>

\* The entry is deleted, or Redis fails and the failure is logged.
InvalidateEntry(r) ==
    /\ pc[r] = "invalidate"
    /\ \/ /\ cache' = None
          /\ Smooth
          /\ excused' = excused \cup InFlight
       \/ /\ UNCHANGED cache
          /\ Fault
          /\ excused' = excused \cup {row}
    /\ Goto(r, "respond")
    /\ UNCHANGED <<row, last, copy>>

\* The credentials are decrypted and the response is built.  An error there
\* becomes a response 500, and the session is rolled back; else it commits.
RespondToUpdate(r) ==
    /\ pc[r] = "respond"
    /\ \/ UNCHANGED row
       \/ ResponseBuilds /\ row' = copy[r]
    /\ Finish(r)
    /\ UNCHANGED <<cache, last, faults, excused>>

-----------------------------------------------------------------------------
(* delete_tenant.                                                          *)

\* AsyncSession.delete is a coroutine that nobody awaits: the row stays.
DeleteTenant(r) ==
    /\ pc[r] = "idle"
    /\ row # None
    /\ Goto(r, "forget")
    /\ UNCHANGED <<row, cache, last, copy, faults, excused>>

\* The entry is deleted, or Redis fails; the answer is 204 in any case.
ForgetEntry(r) ==
    /\ pc[r] = "forget"
    /\ \/ cache' = None /\ Smooth
       \/ UNCHANGED cache /\ Fault
    /\ Finish(r)
    /\ UNCHANGED <<row, last, excused>>

-----------------------------------------------------------------------------
(* The admin pages, time, and lost processes.                              *)

\* The admin pages write in synchronous transactions of their own and leave
\* the cache alone.
AdminCommit ==
    /\ NewVersion
    /\ row' = last + 1
    /\ excused' = excused \cup {row}
    /\ UNCHANGED <<cache, pc, copy, faults>>

AdminCreateTenant == row = None /\ AdminCommit

AdminUpdateTenant == row # None /\ AdminCommit

\* is_active becomes FALSE, which is part of a configuration, too.
AdminSoftDelete == row # None /\ AdminCommit

\* Broken variant of Expire: entries are set without a time to live.
ExpireNever ==
    /\ FALSE
    /\ UNCHANGED vars

\* CACHE_TTL has passed.
Expire ==
    /\ cache # None
    /\ cache' = None
    /\ UNCHANGED <<row, last, pc, copy, faults, excused>>

\* The API process is lost, or the request cancelled: PostgreSQL rolls its
\* transaction back.
Crash(r) ==
    /\ pc[r] # "idle"
    /\ Fault
    /\ excused' = IF pc[r] = "commit" THEN excused \cup {copy[r]} ELSE excused
    /\ Finish(r)
    /\ UNCHANGED <<row, cache, last>>

Step(r) ==
    \/ QueryRow(r) \/ StoreEntry(r)
    \/ CreateVirtualKey(r) \/ CacheNewTenant(r) \/ CommitTenant(r)
    \/ InvalidateEntry(r) \/ RespondToUpdate(r) \/ ForgetEntry(r)

Next ==
    \/ AdminCreateTenant \/ AdminUpdateTenant \/ AdminSoftDelete \/ Expire
    \/ \E r \in Requests :
        \/ MissCache(r) \/ CreateTenant(r) \/ UpdateTenant(r) \/ DeleteTenant(r)
        \/ Step(r) \/ Crash(r)

Spec == Init /\ [][Next]_vars

\* A request that has begun goes on, and Redis expires its keys.
FairSpec ==
    /\ Spec
    /\ \A r \in Requests : WF_vars(Step(r))
    /\ WF_vars(Expire)

-----------------------------------------------------------------------------
(* Properties.                                                             *)

Creating(version) == \E r \in Requests : pc[r] = "commit" /\ copy[r] = version

\* An entry that is not the committed row has one of these causes: a creation
\* is about to commit, or its commit failed; the invalidation failed; a
\* reader had the row in hand when update_tenant deleted the entry, or read
\* it between the deletion and the commit; or an admin page wrote the row.
\* (get_tenant_config and update_tenant, TenantService.)
StaleHasCause ==
    cache # None => cache = row \/ cache \in excused \/ Creating(cache)

\* Once nobody writes any more, the cache ends up with the committed row or
\* without an entry, whatever was cached before and whoever was about to cache
\* what (CACHE_TTL: "5 minutes per tech spec").
CacheConverges == <>[](cache = None \/ cache = row)
=============================================================================
