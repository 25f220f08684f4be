---------------------- MODULE TenantConfigCache_proofs ----------------------
(***************************************************************************)
(* Theorems about TenantConfigCache.                                       *)
(*                                                                         *)
(* StaleHasCause is not inductive: the cached versions of tomorrow are in  *)
(* the hands of today's readers.  Inv covers those, and says what holds    *)
(* between the deletion of an entry and the commit it was deleted for.     *)
(***************************************************************************)
EXTENDS TenantConfigCache, TLAPS

Writing == {"key", "cachenew", "commit", "invalidate", "respond"}

\* One transaction at a time writes the row.
OneWriter ==
    \A r, q \in Requests : pc[r] \in Writing /\ pc[q] \in Writing => r = q

\* A tenant that is being created does not exist.
NewWhileCreating ==
    \A r \in Requests : pc[r] \in {"key", "cachenew", "commit"} => row = None

\* What readers are about to cache.
ReadersCovered ==
    \A r \in Requests : pc[r] = "store" =>
        copy[r] # None /\ (copy[r] = row \/ copy[r] \in excused)

\* Before an update commits, all that is cached, or about to be, is covered.
CoveredForCommit ==
    \A r \in Requests : pc[r] = "respond" =>
        /\ cache = None \/ cache \in excused
        /\ \A q \in Requests : pc[q] = "store" => copy[q] \in excused

Inv == TypeOK /\ OneWriter /\ NewWhileCreating /\ ReadersCovered
       /\ CoveredForCommit /\ StaleHasCause

USE DEF None, Goto, Hold, Finish, Smooth, Fault

LEMMA InvInit == Init => Inv
<1> SUFFICES ASSUME Init PROVE Inv
    OBVIOUS
<1>1. TypeOK
  BY DEF Init, TypeOK
<1>2. OneWriter /\ NewWhileCreating /\ ReadersCovered /\ CoveredForCommit
  BY DEF Init, OneWriter, NewWhileCreating, ReadersCovered, CoveredForCommit, Writing
<1>3. StaleHasCause
  BY DEF Init, StaleHasCause
<1> QED BY <1>1, <1>2, <1>3 DEF Inv

\* Every variable keeps its type.
LEMMA TypeStep == TypeOK /\ [Next]_vars => TypeOK'
<1> SUFFICES ASSUME TypeOK, [Next]_vars PROVE TypeOK'
    OBVIOUS
<1> USE TenantConfigCacheAssumption DEF TypeOK
<1>1. CASE AdminCommit
  BY <1>1 DEF AdminCommit, NewVersion
<1>2. CASE Expire
  BY <1>2 DEF Expire
<1>3. ASSUME NEW r \in Requests, MissCache(r) PROVE TypeOK'
  BY <1>3 DEF MissCache
<1>4. ASSUME NEW r \in Requests, CreateTenant(r) PROVE TypeOK'
  BY <1>4 DEF CreateTenant, NewVersion
<1>5. ASSUME NEW r \in Requests, UpdateTenant(r) PROVE TypeOK'
  BY <1>5 DEF UpdateTenant, NewVersion
<1>6. ASSUME NEW r \in Requests, DeleteTenant(r) PROVE TypeOK'
  BY <1>6 DEF DeleteTenant
<1>7. ASSUME NEW r \in Requests, QueryRow(r) PROVE TypeOK'
  BY <1>7 DEF QueryRow
<1>8. ASSUME NEW r \in Requests, StoreEntry(r) PROVE TypeOK'
  BY <1>8 DEF StoreEntry
<1>9. ASSUME NEW r \in Requests, CreateVirtualKey(r) PROVE TypeOK'
  BY <1>9 DEF CreateVirtualKey
<1>10. ASSUME NEW r \in Requests, CacheNewTenant(r) PROVE TypeOK'
  BY <1>10 DEF CacheNewTenant
<1>11. ASSUME NEW r \in Requests, CommitTenant(r) PROVE TypeOK'
  <2>1. excused' \subseteq Nat
    <3>1. excused' = excused \/ excused' = excused \cup {copy[r]}
      BY <1>11 DEF CommitTenant
    <3>2. copy[r] \in Nat
      BY <1>11
    <3> QED BY <3>1, <3>2
  <2>2. row' \in Nat /\ cache' \in Nat /\ faults' \in Nat /\ last' \in Nat
    BY <1>11 DEF CommitTenant
  <2>3. pc' \in [Requests -> {"idle", "query", "store", "key", "cachenew", "commit",
                            "invalidate", "respond", "forget"}]
        /\ copy' \in [Requests -> Nat]
        /\ \A q \in Requests : pc'[q] \in {"idle", "query", "forget"} => copy'[q] = None
    BY <1>11 DEF CommitTenant
  <2> QED BY <2>1, <2>2, <2>3
<1>12. ASSUME NEW r \in Requests, InvalidateEntry(r) PROVE TypeOK'
  <2>1. excused' \subseteq Nat
    <3>1. excused' = excused \cup InFlight \/ excused' = excused \cup {row}
      BY <1>12 DEF InvalidateEntry
    <3>2. InFlight \subseteq Nat
      BY DEF InFlight
    <3> QED BY <3>1, <3>2
  <2>2. row' \in Nat /\ cache' \in Nat /\ faults' \in Nat /\ last' \in Nat
    BY <1>12 DEF InvalidateEntry, InFlight
  <2>3. pc' \in [Requests -> {"idle", "query", "store", "key", "cachenew", "commit",
                            "invalidate", "respond", "forget"}]
        /\ copy' \in [Requests -> Nat]
        /\ \A q \in Requests : pc'[q] \in {"idle", "query", "forget"} => copy'[q] = None
    BY <1>12 DEF InvalidateEntry, InFlight
  <2> QED BY <2>1, <2>2, <2>3
<1>13. ASSUME NEW r \in Requests, RespondToUpdate(r) PROVE TypeOK'
  BY <1>13 DEF RespondToUpdate
<1>14. ASSUME NEW r \in Requests, ForgetEntry(r) PROVE TypeOK'
  BY <1>14 DEF ForgetEntry
<1>15. ASSUME NEW r \in Requests, Crash(r) PROVE TypeOK'
  <2>1. excused' \subseteq Nat
    BY <1>15 DEF Crash
  <2>2. row' \in Nat /\ cache' \in Nat /\ faults' \in Nat /\ last' \in Nat
    BY <1>15 DEF Crash
  <2>3. pc' \in [Requests -> {"idle", "query", "store", "key", "cachenew", "commit",
                            "invalidate", "respond", "forget"}]
        /\ copy' \in [Requests -> Nat]
        /\ \A q \in Requests : pc'[q] \in {"idle", "query", "forget"} => copy'[q] = None
    BY <1>15 DEF Crash
  <2> QED BY <2>1, <2>2, <2>3
<1>16. CASE UNCHANGED vars
  BY <1>16 DEF vars
<1> QED BY <1>1, <1>2, <1>3, <1>4, <1>5, <1>6, <1>7, <1>8, <1>9, <1>10, <1>11,
           <1>12, <1>13, <1>14, <1>15, <1>16 DEF Next, Step, AdminCreateTenant, AdminUpdateTenant,
           AdminSoftDelete

\* Whatever a step does, the parts of the invariant hold after it.
LEMMA InvStep == Inv /\ [Next]_vars => Inv'
<1> SUFFICES ASSUME Inv, [Next]_vars PROVE Inv'
    OBVIOUS
<1> DEFINE Parts == OneWriter /\ NewWhileCreating /\ ReadersCovered
                    /\ CoveredForCommit /\ StaleHasCause
<1>t. TypeOK /\ TypeOK'
  BY TypeStep DEF Inv
<1>p. Parts
  BY DEF Inv
<1> USE <1>t, <1>p, TenantConfigCacheAssumption
    DEF TypeOK, OneWriter, NewWhileCreating, ReadersCovered, CoveredForCommit,
        StaleHasCause, Creating, Writing
<1>1. ASSUME AdminCommit PROVE Parts'
  BY <1>1 DEF AdminCommit, NewVersion, Locked
<1>2. ASSUME Expire PROVE Parts'
  BY <1>2 DEF Expire
<1>3. ASSUME NEW r \in Requests, MissCache(r) PROVE Parts'
  BY <1>3 DEF MissCache
<1>4. ASSUME NEW r \in Requests, CreateTenant(r) PROVE Parts'
  BY <1>4 DEF CreateTenant, NewVersion, Locked
<1>5. ASSUME NEW r \in Requests, UpdateTenant(r) PROVE Parts'
  BY <1>5 DEF UpdateTenant, NewVersion, Locked
<1>6. ASSUME NEW r \in Requests, DeleteTenant(r) PROVE Parts'
  BY <1>6 DEF DeleteTenant
<1>7. ASSUME NEW r \in Requests, QueryRow(r) PROVE Parts'
  BY <1>7 DEF QueryRow
<1>8. ASSUME NEW r \in Requests, StoreEntry(r) PROVE Parts'
  BY <1>8 DEF StoreEntry
<1>9. ASSUME NEW r \in Requests, CreateVirtualKey(r) PROVE Parts'
  BY <1>9 DEF CreateVirtualKey
<1>10. ASSUME NEW r \in Requests, CacheNewTenant(r) PROVE Parts'
  BY <1>10 DEF CacheNewTenant
<1>11. ASSUME NEW r \in Requests, CommitTenant(r) PROVE Parts'
  BY <1>11 DEF CommitTenant
<1>12. ASSUME NEW r \in Requests, InvalidateEntry(r) PROVE Parts'
  BY <1>12 DEF InvalidateEntry, InFlight
<1>13. ASSUME NEW r \in Requests, RespondToUpdate(r) PROVE Parts'
  BY <1>13 DEF RespondToUpdate
<1>14. ASSUME NEW r \in Requests, ForgetEntry(r) PROVE Parts'
  BY <1>14 DEF ForgetEntry
<1>15. ASSUME NEW r \in Requests, Crash(r) PROVE Parts'
  BY <1>15 DEF Crash
<1>16. ASSUME UNCHANGED vars PROVE Parts'
  BY <1>16 DEF vars
<1> QED BY <1>t, <1>1, <1>2, <1>3, <1>4, <1>5, <1>6, <1>7, <1>8, <1>9, <1>10, <1>11,
           <1>12, <1>13, <1>14, <1>15, <1>16 DEF Next, Step, Inv, AdminCreateTenant,
           AdminUpdateTenant, AdminSoftDelete

-----------------------------------------------------------------------------
\* Versions, entries and requests have their types.
THEOREM TypeCorrect == Spec => []TypeOK
<1>1. Init => TypeOK
  BY InvInit DEF Inv
<1> QED BY <1>1, TypeStep, PTL DEF Spec

\* However many requests, writes and faults there are, an entry that is not
\* the committed row goes back to one of the named causes (TenantService).
THEOREM StaleEntriesHaveCauses == Spec => []StaleHasCause
<1>1. Inv => StaleHasCause
  BY DEF Inv
<1> QED BY <1>1, InvInit, InvStep, PTL DEF Spec

=============================================================================
