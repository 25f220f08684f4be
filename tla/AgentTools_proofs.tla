-------------------------- MODULE AgentTools_proofs --------------------------
(***************************************************************************)
(* Proofs about AgentTools: what the filter by name lets through, that the *)
(* tools are of live servers, and when loading them fails, for any         *)
(* servers, catalogue and number of changes.                               *)
(***************************************************************************)
EXTENDS AgentTools, TLAPS

Filtered == {"select", "load"} \cup Endings
Selected == {"load"} \cup Endings

\* What an execution does not know yet is empty.
Untouched ==
    /\ pc \notin Filtered => wanted = {}
    /\ pc \notin Selected => servers = {}
    /\ pc \notin Endings => loaded = {}

\* A list that no change has overtaken says what the rows say.
CacheIsExact == cached /\ ~outdated => list = ToolList

\* The servers found active still are, if no row has changed.
ServersAreExact == pc \in Selected \ {"unlisted"} /\ ~outdated => servers = Active

\* What is, or was found, active has been noted as such.
UpIsNoted ==
    /\ pc # "idle" => Active \subseteq wasUp
    /\ servers \subseteq wasUp

LoadedIsSelected == \A a \in loaded : a.server \in servers

Inv ==
    /\ TypeOK /\ Untouched
    /\ CacheIsExact /\ FilterIsExact /\ ServersAreExact
    /\ UpIsNoted /\ LoadedIsSelected
    /\ FailureHasCause

LEMMA InitInv == Init => Inv
  <1> SUFFICES ASSUME Init PROVE Inv
    OBVIOUS
  <1>1. TypeOK
    BY DEF Init, TypeOK
  <1>2. Untouched /\ LoadedIsSelected /\ UpIsNoted
    BY DEF Init, Untouched, LoadedIsSelected, UpIsNoted
  <1>3. CacheIsExact /\ FilterIsExact /\ FailureHasCause /\ ServersAreExact
    BY DEF Init, CacheIsExact, FilterIsExact, FailureHasCause, ServersAreExact,
           Selected, Endings
  <1> QED BY <1>1, <1>2, <1>3 DEF Inv

-----------------------------------------------------------------------------
(* Changes of the world.                                                   *)

\* A change that leaves the rows alone leaves everything here alone.
LEMMA QuietStep ==
  ASSUME Inv, TypeOK',
         UNCHANGED <<rowVars, cacheVars, executionVars, outdated, wasUp>>
  PROVE  Inv'
  <1>1. /\ UNCHANGED <<status, found>> /\ UNCHANGED <<cached, list>>
        /\ UNCHANGED <<pc, mine, wanted, servers, loaded>>
        /\ UNCHANGED <<outdated, wasUp>>
    BY DEF rowVars, cacheVars, executionVars
  <1>2. Untouched' /\ UpIsNoted' /\ LoadedIsSelected' /\ ServersAreExact'
    BY <1>1 DEF Inv, Untouched, UpIsNoted, LoadedIsSelected, ServersAreExact,
                Filtered, Selected, Endings, Active
  <1>3. CacheIsExact' /\ FailureHasCause'
    BY <1>1 DEF Inv, CacheIsExact, ToolList, Listed, FailureHasCause, SharedName
  <1>4. FilterIsExact'
    BY <1>1 DEF Inv, FilterIsExact, Available, SharedName
  <1> QED BY <1>2, <1>3, <1>4 DEF Inv

\* A change of the rows makes every list and every selection outdated.
LEMMA RowsStep ==
  ASSUME Inv, TypeOK', NEW s, NEW f, Rows(s, f)
  PROVE  Inv'
  <1>1. outdated' /\ wasUp' = wasUp \cup {x \in Servers : s[x] = "active"} /\ status' = s
        /\ UNCHANGED <<pc, mine, wanted, servers, loaded>>
    BY DEF Rows, executionVars
  <1>2. Active' \subseteq wasUp'
    BY <1>1 DEF Active
  <1>3. UpIsNoted' /\ Untouched' /\ LoadedIsSelected'
    BY <1>1, <1>2 DEF Inv, UpIsNoted, Untouched, LoadedIsSelected, Filtered, Selected, Endings
  <1>4. CacheIsExact' /\ FilterIsExact' /\ ServersAreExact' /\ FailureHasCause'
    BY <1>1 DEF CacheIsExact, FilterIsExact, ServersAreExact, FailureHasCause
  <1> QED BY <1>3, <1>4 DEF Inv

LEMMA WorldTypes == ASSUME TypeOK, World PROVE TypeOK'
  <1>c. changes' \in Nat
    BY DEF World, Redeploy, Discover, CheckHealth, DeleteServer, Assign, Rows, Change, TypeOK
  <1>1. CASE \E a \in Catalogue : Redeploy(a)
    BY <1>1, <1>c DEF Redeploy, TypeOK, rowVars, cacheVars, executionVars
  <1>r. ASSUME NEW s \in Servers, NEW v \in {"active", "down", "gone"},
               NEW f \in SUBSET Catalogue, Rows([status EXCEPT ![s] = v], f)
        PROVE  TypeOK'
    <2>1. status' \in [Servers -> {"active", "down", "gone"}]
      BY <1>r DEF Rows, TypeOK
    <2>2. wasUp' \subseteq Servers /\ outdated' \in BOOLEAN /\ found' \subseteq Catalogue
      BY <1>r DEF Rows, TypeOK
    <2> QED BY <2>1, <2>2, <1>c, <1>r DEF Rows, TypeOK, cacheVars, executionVars
  <1>2. CASE \E s \in Servers : Discover(s)
    <2> PICK s \in Servers : Discover(s)
      BY <1>2
    <2>1. (found \ Of(found, s)) \cup Of(offers, s) \in SUBSET Catalogue
      BY DEF Of, TypeOK
    <2>2. found \in SUBSET Catalogue
      BY DEF TypeOK
    <2> QED BY <2>1, <2>2, <1>r DEF Discover
  <1>3. CASE \E s \in Servers : CheckHealth(s)
    BY <1>3, <1>r DEF CheckHealth, TypeOK
  <1>4. CASE \E s \in Servers : DeleteServer(s)
    <2> PICK s \in Servers : DeleteServer(s)
      BY <1>4
    <2>1. found \ Of(found, s) \in SUBSET Catalogue
      BY DEF Of, TypeOK
    <2> QED BY <2>1, <1>r DEF DeleteServer
  <1>5. CASE \E new \in SUBSET Catalogue : Assign(new)
    BY <1>5, <1>c DEF Assign, TypeOK, rowVars, cacheVars, executionVars
  <1> QED BY <1>1, <1>2, <1>3, <1>4, <1>5 DEF World

LEMMA WorldStep == ASSUME Inv, World PROVE Inv'
  <1>t. TypeOK'
    BY WorldTypes DEF Inv
  <1>1. CASE \E a \in Catalogue : Redeploy(a)
    BY <1>1, <1>t, QuietStep DEF Redeploy
  <1>2. CASE \E new \in SUBSET Catalogue : Assign(new)
    BY <1>2, <1>t, QuietStep DEF Assign
  <1>3. CASE \E s, f : Rows(s, f)
    BY <1>3, <1>t, RowsStep
  <1> QED
    BY <1>1, <1>2, <1>3 DEF World, Discover, CheckHealth, DeleteServer

-----------------------------------------------------------------------------
(* The execution.                                                          *)

LEMMA BeginStep == ASSUME Inv, Begin PROVE Inv'
  <1>1. /\ pc = "idle" /\ pc' = "filter" /\ mine' = assigned /\ wasUp' = Active
        /\ UNCHANGED <<status, found, offers, assigned, changes>>
        /\ UNCHANGED <<cached, list, wanted, servers, loaded, outdated>>
    BY DEF Begin, Goto, worldVars, rowVars, cacheVars
  <1>2. wanted = {} /\ servers = {} /\ loaded = {}
    BY <1>1 DEF Inv, Untouched, Filtered, Selected, Endings
  <1>3. TypeOK'
    BY <1>1, <1>2 DEF Inv, TypeOK, Active
  <1>4. Untouched' /\ UpIsNoted' /\ LoadedIsSelected' /\ ServersAreExact'
    BY <1>1, <1>2 DEF Untouched, UpIsNoted, LoadedIsSelected, ServersAreExact,
                      Filtered, Selected, Endings, Active
  <1>5. CacheIsExact' /\ FailureHasCause' /\ FilterIsExact'
    BY <1>1 DEF Inv, CacheIsExact, ToolList, Listed, FailureHasCause, FilterIsExact
  <1> QED BY <1>3, <1>4, <1>5 DEF Inv

LEMMA FilterStep == ASSUME Inv, Filter PROVE Inv'
  <1>1. /\ pc = "filter" /\ pc' = "select"
        /\ UNCHANGED <<status, found, offers, assigned, changes>>
        /\ UNCHANGED <<mine, servers, loaded, wasUp>>
    BY DEF Filter, Goto, worldVars, rowVars
  <1>2. wanted = {} /\ servers = {} /\ loaded = {}
    BY <1>1 DEF Inv, Untouched, Filtered, Selected, Endings
  <1>3. UNCHANGED <<ToolList, Active>>
    BY <1>1 DEF ToolList, Listed, Active
  <1>l. ToolList \subseteq Names
    BY AgentToolsAssumption DEF Inv, TypeOK, ToolList, Listed, Assignment
  <1>c. cached' \in BOOLEAN /\ list' \subseteq Names /\ outdated' \in BOOLEAN
        /\ wanted' \subseteq mine /\ (cached' /\ ~outdated' => list' = ToolList)
    <2>1. CASE mine = {}
      BY <2>1, <1>2 DEF Filter, cacheVars, Inv, TypeOK, CacheIsExact
    <2>2. CASE mine # {} /\ ~cached
      BY <2>2, <1>l DEF Filter
    <2>3. CASE mine # {} /\ cached
      BY <2>3 DEF Filter, Inv, TypeOK, CacheIsExact
    <2> QED BY <2>1, <2>2, <2>3 DEF Inv, TypeOK
  <1>4. TypeOK'
    BY <1>1, <1>2, <1>c DEF Inv, TypeOK
  <1>5. Untouched' /\ UpIsNoted' /\ LoadedIsSelected' /\ ServersAreExact'
    BY <1>1, <1>2, <1>3 DEF Inv, Untouched, UpIsNoted, LoadedIsSelected, ServersAreExact,
                      Filtered, Selected, Endings
  <1>6. CacheIsExact' /\ FailureHasCause'
    BY <1>1, <1>3, <1>c DEF CacheIsExact, FailureHasCause
  <1>7. FilterIsExact'
    <2> SUFFICES ASSUME ~outdated', NEW a \in mine
                 PROVE  /\ Available(a) /\ a.kind # "resource" => a \in wanted'
                        /\ a \in wanted' => Available(a) \/ SharedName(a)
      BY <1>1 DEF FilterIsExact, Available, SharedName
    <2>1. list' = ToolList /\ wanted' = {b \in mine : b.name \in list'}
      BY <1>c DEF Filter
    <2>2. a \in Catalogue
      BY DEF Inv, TypeOK
    <2>3. Available(a) /\ a.kind # "resource" => a.name \in ToolList
      BY DEF Available, ToolList, Listed
    <2>4. a.name \in ToolList => Available(a) \/ SharedName(a)
      BY <2>2 DEF Inv, TypeOK, ToolList, Listed, Available, SharedName
    <2> QED BY <2>1, <2>3, <2>4
  <1> QED BY <1>4, <1>5, <1>6, <1>7 DEF Inv

LEMMA FilterFailsStep == ASSUME Inv, FilterFails PROVE Inv'
  <1>1. /\ pc = "filter" /\ pc' = "unlisted" /\ ~cached /\ outdated' = FALSE
        /\ Listed \cap Malformed # {}
        /\ UNCHANGED <<status, found, offers, assigned, changes>>
        /\ UNCHANGED <<cached, list>>
        /\ UNCHANGED <<mine, wanted, servers, loaded, wasUp>>
    BY DEF FilterFails, NeedsNewList, Goto, worldVars, rowVars, cacheVars
  <1>2. wanted = {} /\ servers = {} /\ loaded = {}
    BY <1>1 DEF Inv, Untouched, Filtered, Selected, Endings
  <1>3. TypeOK'
    BY <1>1 DEF Inv, TypeOK, Endings
  <1>4. Untouched' /\ UpIsNoted' /\ LoadedIsSelected'
    BY <1>1, <1>2 DEF Inv, Untouched, UpIsNoted, LoadedIsSelected,
                      Filtered, Selected, Endings, Active
  <1>5. CacheIsExact' /\ FilterIsExact'
    BY <1>1 DEF CacheIsExact, FilterIsExact
  <1>6. FailureHasCause' /\ ServersAreExact'
    BY <1>1 DEF FailureHasCause, ServersAreExact, Listed
  <1> QED BY <1>3, <1>4, <1>5, <1>6 DEF Inv

LEMMA SelectStep == ASSUME Inv, Select PROVE Inv'
  <1>1. /\ pc = "select" /\ pc' = "load" /\ servers' = Active
        /\ UNCHANGED <<status, found, offers, assigned, changes>>
        /\ UNCHANGED <<cached, list, mine, wanted, loaded, outdated, wasUp>>
    BY DEF Select, Goto, worldVars, rowVars, cacheVars
  <1>2. loaded = {} /\ Active' = Active
    BY <1>1 DEF Inv, Untouched, Endings, Active
  <1>3. TypeOK'
    BY <1>1 DEF Inv, TypeOK, Active
  <1>4. Untouched' /\ UpIsNoted' /\ LoadedIsSelected' /\ ServersAreExact'
    BY <1>1, <1>2 DEF Inv, Untouched, UpIsNoted, LoadedIsSelected, ServersAreExact,
                      Filtered, Selected, Endings
  <1>5. CacheIsExact' /\ FailureHasCause'
    BY <1>1 DEF Inv, CacheIsExact, ToolList, Listed, FailureHasCause
  <1>6. FilterIsExact'
    BY <1>1 DEF Inv, FilterIsExact, Available, SharedName
  <1> QED BY <1>3, <1>4, <1>5, <1>6 DEF Inv

LEMMA LoadStep == ASSUME Inv, Load PROVE Inv'
  <1>1. /\ pc = "load" /\ pc' \in Endings
        /\ UNCHANGED <<status, found, offers, assigned, changes>>
        /\ UNCHANGED <<cached, list, mine, wanted, servers, outdated, wasUp>>
    BY DEF Load, Goto, worldVars, rowVars, cacheVars, Endings
  <1>2. loaded = {} /\ Active' = Active
    BY <1>1 DEF Inv, Untouched, Endings, Active
  <1>l. loaded' = {} \/ \E s \in servers : loaded' = SessionOf(s)
    BY <1>2 DEF Load
  <1>3. loaded' \subseteq wanted /\ \A a \in loaded' : a.server \in servers
    BY <1>l DEF SessionOf, Of
  <1>4. TypeOK'
    BY <1>1, <1>3 DEF Inv, TypeOK, Endings
  <1>5. Untouched' /\ UpIsNoted' /\ LoadedIsSelected' /\ ServersAreExact'
    BY <1>1, <1>2, <1>3 DEF Inv, Untouched, UpIsNoted, LoadedIsSelected, ServersAreExact,
                            Filtered, Selected, Endings
  <1>6. CacheIsExact'
    BY <1>1 DEF Inv, CacheIsExact, ToolList, Listed
  <1>7. FilterIsExact'
    BY <1>1 DEF Inv, FilterIsExact, Available, SharedName, Endings
  <1>8. FailureHasCause'
    <2>0. pc' # "unlisted"
      BY DEF Load, Goto
    <2> SUFFICES ASSUME pc' = "failed", ~outdated, NEW a \in wanted
                 PROVE  SharedName(a)
      BY <1>1, <2>0 DEF FailureHasCause, SharedName
    <2>1. \A s \in servers : Of(wanted, s) = {}
      BY DEF Load, Goto
    <2>2. servers = Active /\ a \in mine /\ a.server \in Servers
      BY <1>1, AgentToolsAssumption DEF Inv, ServersAreExact, Selected, TypeOK, Assignment
    <2>3. Available(a) \/ SharedName(a)
      BY <1>1, <2>2 DEF Inv, FilterIsExact
    <2>4. ~Available(a)
      BY <2>1, <2>2 DEF Available, Active, Of
    <2> QED BY <2>3, <2>4
  <1> QED BY <1>4, <1>5, <1>6, <1>7, <1>8 DEF Inv

LEMMA FinishStep == ASSUME Inv, Finish PROVE Inv'
  <1>1. /\ pc' = "idle" /\ mine' = {} /\ wanted' = {} /\ servers' = {} /\ loaded' = {}
        /\ wasUp' = {}
        /\ UNCHANGED <<status, found, offers, assigned, changes>>
        /\ UNCHANGED <<cached, list, outdated>>
    BY DEF Finish, Goto, worldVars, rowVars, cacheVars
  <1>2. TypeOK'
    BY <1>1 DEF Inv, TypeOK
  <1>3. Untouched' /\ UpIsNoted' /\ LoadedIsSelected' /\ ServersAreExact'
    BY <1>1 DEF Untouched, UpIsNoted, LoadedIsSelected, ServersAreExact,
                Filtered, Selected, Endings
  <1>4. CacheIsExact' /\ FailureHasCause' /\ FilterIsExact'
    BY <1>1 DEF Inv, CacheIsExact, ToolList, Listed, FailureHasCause, FilterIsExact
  <1> QED BY <1>2, <1>3, <1>4 DEF Inv

LEMMA ExpireStep == ASSUME Inv, Expire PROVE Inv'
  <1>1. /\ cached' = FALSE /\ list' = {}
        /\ UNCHANGED <<status, found, offers, assigned, changes>>
        /\ UNCHANGED <<pc, mine, wanted, servers, loaded>>
        /\ UNCHANGED <<outdated, wasUp>>
    BY DEF Expire, worldVars, rowVars, executionVars
  <1>2. TypeOK' /\ CacheIsExact'
    BY <1>1 DEF Inv, TypeOK, CacheIsExact
  <1>3. Untouched' /\ UpIsNoted' /\ LoadedIsSelected' /\ ServersAreExact'
    BY <1>1 DEF Inv, Untouched, UpIsNoted, LoadedIsSelected, ServersAreExact,
                Filtered, Selected, Endings, Active
  <1>4. FilterIsExact' /\ FailureHasCause'
    BY <1>1 DEF Inv, FilterIsExact, FailureHasCause, Listed, Available, SharedName
  <1> QED BY <1>2, <1>3, <1>4 DEF Inv

LEMMA Invariance == Spec => []Inv
  <1>1. Inv /\ UNCHANGED vars => Inv'
    <2> SUFFICES ASSUME Inv, UNCHANGED vars PROVE Inv'
      OBVIOUS
    <2>1. UNCHANGED <<rowVars, cacheVars, executionVars, outdated, wasUp>>
      BY DEF vars, worldVars
    <2>2. TypeOK'
      BY DEF vars, worldVars, rowVars, cacheVars, executionVars, Inv, TypeOK
    <2> QED BY <2>1, <2>2, QuietStep
  <1>2. Inv /\ Next => Inv'
    BY WorldStep, BeginStep, FilterStep, FilterFailsStep, SelectStep, LoadStep, FinishStep,
       ExpireStep
       DEF Next, Execute
  <1>3. Inv /\ [Next]_vars => Inv'
    BY <1>1, <1>2
  <1> QED BY InitInv, <1>3, PTL DEF Spec

-----------------------------------------------------------------------------
\* The rows, the cached list and what an execution has gathered keep their types;
\* what is loaded was wanted, and what is wanted was assigned.
THEOREM TypeCorrect == Spec => []TypeOK
  <1>1. Inv => TypeOK
    BY DEF Inv
  <1> QED BY Invariance, <1>1, PTL

\* Whatever the servers, names and changes: with a list that is not outdated the
\* filter by name errs only on names that are used twice, and on resources.
THEOREM FiltersAreExact == Spec => []FilterIsExact
  <1>1. Inv => FilterIsExact
    BY DEF Inv
  <1> QED BY Invariance, <1>1, PTL

\* An agent never works with tools of a server that was down for as long as the
\* agent was executed, however old the cached list is.
THEOREM ToolsAreOfLiveServers == Spec => []ToolsOfLiveServers
  <1>1. Inv => ToolsOfLiveServers
    BY DEF Inv, ToolsOfLiveServers, LoadedIsSelected, UpIsNoted
  <1> QED BY Invariance, <1>1, PTL

\* Loading fails only after a change of the rows, or for names used twice; making
\* the list only for something that cannot be listed.
THEOREM FailuresHaveCauses == Spec => []FailureHasCause
  <1>1. Inv => FailureHasCause
    BY DEF Inv
  <1> QED BY Invariance, <1>1, PTL
=============================================================================
