--------------------------- MODULE PluginPoolProofs ---------------------------
(***************************************************************************)
(* The safety of PluginPool for any number of files, changes, entries and  *)
(* processes.                                                              *)
(***************************************************************************)
EXTENDS PluginPool, FiniteSetTheorems, TLAPS

USE DEF Compared, LimitReached, AfterKill, Del, AllKilled

\* The initial states satisfy the invariant.
LEMMA InitInv == Init => IInv
  <1> SUFFICES ASSUME Init PROVE IInv
    OBVIOUS
  <1>1. Pooled = {}
    BY DEF Init, Pooled
  <1>2. IsFiniteSet(Pooled) /\ Cardinality(Pooled) = 0
    BY <1>1, FS_EmptySet
  <1>3. (CHOOSE f \in Paths : TRUE) \in Paths
    BY PoolAssumption
  <1>4. maxProc \in Nat /\ Cardinality(Pooled) <= maxProc
    BY <1>2, PoolAssumption DEF Init
  <1>5. TypeOK
    BY <1>3, <1>4, PoolAssumption DEF Init, TypeOK, Versions
  <1>6. Phases /\ KillInv
    BY DEF Init, Phases, Running, KillInv
  <1>7. PoolInv
    BY <1>1, <1>2 DEF Init, PoolInv, EntriesListen
  <1>8. ReportInv
    BY <1>1 DEF Init, ReportInv
  <1>9. ProcInv /\ DelayInv
    BY DEF Init, ProcInv, Owns, DelayInv
  <1> QED BY <1>5, <1>6, <1>7, <1>8, <1>9 DEF IInv

-------------------------------------------------------------------------------
(* Facts about single operators.                                             *)

\* A new entry takes an identity that is not in use.
LEMMA AddCases ==
    ASSUME NEW f \in Paths, Add(f)
    PROVE  \/ rejected' = rejected \cup {f} /\ UNCHANGED <<byPath, epc, path, delay>>
           \/ /\ ~LimitReached
              /\ \E e \in Entries : epc[e] = "none" /\ NewEntry(f, e)
  <1>1. CASE ~LimitReached /\ FreeEntries # {} /\ NewEntry(f, CHOOSE e \in FreeEntries : TRUE)
    <2>1. (CHOOSE e \in FreeEntries : TRUE) \in FreeEntries
      BY <1>1
    <2> QED BY <1>1, <2>1 DEF FreeEntries
  <1> QED BY <1>1 DEF Add

\* A new process takes an identity that is not in use.
LEMMA EntryCases ==
    ASSUME NEW e \in Entries, Entry(e)
    PROVE  \/ \E p \in Procs : pst[p] = "none" /\ StartProcess(e, p)
           \/ ProcessExit(e) \/ Restart(e) \/ Killed(e)
  <1>1. CASE FreeProcs # {} /\ StartProcess(e, CHOOSE p \in FreeProcs : TRUE)
    <2>1. (CHOOSE p \in FreeProcs : TRUE) \in FreeProcs
      BY <1>1
    <2> QED BY <1>1, <2>1 DEF FreeProcs
  <1> QED BY <1>1 DEF Entry

\* An event changes what loop has been told of its file, and of no other.
LEMMA TellReported ==
    ASSUME TypeOK, NEW f \in Due, wpc = "send", Tell(f), UNCHANGED have
    PROVE  /\ f \in Paths
           /\ \A g \in Paths \ {f} : Reported(g)' = Reported(g)
           /\ Reported(f) = last[f]
           /\ Reported(f)' = have[f]
           /\ wpc' \in {"wait", "send"}
           /\ last' \in [Paths -> Versions] /\ told' \subseteq Paths
  <1>1. f \in Found \cup Missing /\ f \in Paths /\ f \notin told
    BY DEF Due, Found, Missing
  <1>2. \A g \in Paths : g \notin told \cup Found \cup Missing => have[g] = last[g]
    BY DEF Found, Missing
  <1>3. CASE Found \cup Missing = {f}
    <2>1. wpc' = "wait" /\ last' = have /\ told' = {}
      BY <1>3 DEF Tell
    <2>2. \A g \in Paths : Reported(g)' = have[g]
      BY <2>1 DEF Reported
    <2>3. \A g \in Paths \ {f} : Reported(g) = have[g]
      BY <1>2, <1>3 DEF Reported
    <2> QED BY <1>1, <2>1, <2>2, <2>3 DEF Reported, TypeOK
  <1>4. CASE Found \cup Missing # {f}
    <2>1. wpc' = "send" /\ last' = last /\ told' = told \cup {f}
      BY <1>4 DEF Tell
    <2> QED BY <1>1, <2>1 DEF Reported, TypeOK
  <1> QED BY <1>3, <1>4

\* Killing an entry's process.
LEMMA EntryKillType ==
    ASSUME IInv, NEW e \in Entries, NEW k \in {"modify", "remove"},
           epc[e] = "select", EntryKill(e, k)
    PROVE  /\ epc' \in [Entries -> {"none", "start", "select", "modify", "remove"}]
           /\ delay' \in [Entries -> BOOLEAN] /\ kill' \in [Procs -> BOOLEAN]
           /\ \A d \in Entries \ {e} : epc'[d] = epc[d] /\ delay'[d] = delay[d]
           /\ k = "modify" => epc'[e] \in {"modify", "start"}
           /\ k = "remove" => epc'[e] \in {"remove", "none"}
           /\ epc'[e] \in {"modify", "remove"} <=> ~delay[e]
  <1>0. TypeOK
    BY DEF IInv
  <1>1. CASE ~delay[e] /\ Kill(proc[e]) /\ epc' = [epc EXCEPT ![e] = k] /\ UNCHANGED delay
    BY <1>0, <1>1 DEF TypeOK, Kill
  <1>2. CASE /\ delay[e]
             /\ epc' = [epc EXCEPT ![e] = IF k = "modify" THEN "start" ELSE "none"]
             /\ delay' = [delay EXCEPT ![e] = FALSE] /\ UNCHANGED kill
    BY <1>0, <1>2 DEF TypeOK
  <1> QED BY <1>1, <1>2 DEF EntryKill


-------------------------------------------------------------------------------
(* Each part of the invariant is preserved by every action.                  *)

\* The types, and the limit on entries.
LEMMA TypeStep == ASSUME IInv, [Next]_vars PROVE TypeOK'
  <1>0. TypeOK /\ PoolInv /\ ReportInv /\ ProcInv
    BY DEF IInv
  <1>a. ASSUME UNCHANGED byPath PROVE Pooled' = Pooled
    BY <1>a DEF Pooled
  <1>1. ASSUME NEW f \in Paths, EditFile(f) PROVE TypeOK'
    <2>1. edits + 1 \in Versions
      BY <1>0, <1>1, PoolAssumption DEF EditFile, TypeOK, Versions
    <2>2. file' \in [Paths -> Versions] /\ edits' \in Versions
      BY <1>0, <1>1, <2>1, PoolAssumption DEF EditFile, TypeOK, Versions
    <2> QED BY <1>0, <1>a, <1>1, <2>2 DEF EditFile, TypeOK, watchVars, loopVars, entryVars, procVars
  <1>2. CASE Scan
    BY <1>0, <1>a, <1>2 DEF Scan, TypeOK, envVars, loopVars, entryVars, procVars
  <1>3. ASSUME NEW f \in Paths, EventNoEntry(f) PROVE TypeOK'
    <2>1. /\ wpc' \in {"wait", "send", "stopped"}
          /\ last' \in [Paths -> Versions] /\ told' \subseteq Paths
      BY <1>0, <1>3, TellReported DEF EventNoEntry
    <2>2. CASE rejected' \subseteq Paths /\ UNCHANGED <<byPath, epc, path, delay>>
      BY <1>0, <1>a, <1>3, <2>1, <2>2 DEF EventNoEntry, TypeOK, envVars, procVars
    <2>3. ASSUME NEW e \in Entries, ~LimitReached, NewEntry(f, e) PROVE TypeOK'
      <3>1. /\ byPath' \in [Paths -> Entries \cup {None}]
            /\ epc' \in [Entries -> {"none", "start", "select", "modify", "remove"}]
            /\ path' \in [Entries -> Paths] /\ delay' \in [Entries -> BOOLEAN]
            /\ rejected' = rejected
        BY <1>0, <2>3 DEF NewEntry, TypeOK
      <3>2. Pooled' = Pooled \cup {f} /\ f \notin Pooled
        BY <1>0, <1>3, <2>3, PoolAssumption DEF EventNoEntry, NewEntry, TypeOK, Pooled
      <3>3. Cardinality(Pooled') = Cardinality(Pooled) + 1 /\ Cardinality(Pooled) \in Nat
        BY <1>0, <3>2, FS_AddElement, FS_CardinalityType DEF PoolInv
      <3>4. Cardinality(Pooled') <= maxProc
        BY <1>0, <2>3, <3>3 DEF TypeOK
      <3> QED BY <1>0, <1>3, <2>1, <3>1, <3>4 DEF EventNoEntry, TypeOK, envVars, procVars
    <2>4. CASE Add(f)
      <3>1. rejected \cup {f} \subseteq Paths
        BY <1>0 DEF TypeOK
      <3> QED BY <2>2, <2>3, <2>4, <3>1, AddCases
    <2>5. CASE /\ rejected' = IF Kind(f) = "remove" THEN rejected \ {f} ELSE rejected
               /\ UNCHANGED <<byPath, epc, path, delay>>
      BY <1>0, <2>2, <2>5 DEF TypeOK
    <2> QED BY <1>3, <2>4, <2>5 DEF EventNoEntry
  <1>4. ASSUME NEW f \in Paths, EventEntry(f) PROVE TypeOK'
    <2>1. /\ wpc' \in {"wait", "send", "stopped"}
          /\ last' \in [Paths -> Versions] /\ told' \subseteq Paths
      BY <1>0, <1>4, TellReported DEF EventEntry
    <2>2. event' \in Events
      BY <1>4 DEF EventEntry, Kind, Events
    <2> QED BY <1>0, <1>a, <1>4, <2>1, <2>2 DEF EventEntry, TypeOK, envVars, entryVars, procVars
  <1>5. CASE Quit
    BY <1>0, <1>a, <1>5 DEF Quit, TypeOK, envVars, watchVars, entryVars, procVars
  <1>6. CASE KilledEntry
    BY <1>0, <1>a, <1>6 DEF KilledEntry, TypeOK, envVars, watchVars, entryVars, procVars
  <1>7. CASE Stop
    BY <1>0, <1>a, <1>7 DEF Stop, TypeOK, envVars, entryVars, procVars
  <1>8. CASE Deliver
    <2>1. /\ event.target \in Paths /\ event.kind \in {"modify", "remove"}
          /\ byPath[event.target] \in Entries
      BY <1>0, <1>8 DEF Deliver, ReportInv, TypeOK, Events, Pooled
    <2>2. /\ epc' \in [Entries -> {"none", "start", "select", "modify", "remove"}]
          /\ delay' \in [Entries -> BOOLEAN] /\ kill' \in [Procs -> BOOLEAN]
      BY <1>8, <2>1, EntryKillType DEF Deliver
    <2>3. byPath' \in [Paths -> Entries \cup {None}] /\ Pooled' \subseteq Pooled
      BY <1>0, <1>8 DEF Deliver, TypeOK, Pooled
    <2>4. Cardinality(Pooled') <= Cardinality(Pooled) /\ Cardinality(Pooled') \in Nat
          /\ Cardinality(Pooled) \in Nat
      BY <1>0, <2>3, FS_Subset, FS_CardinalityType DEF PoolInv
    <2>5. Cardinality(Pooled') <= maxProc
      BY <1>0, <2>4 DEF TypeOK
    <2> QED BY <1>0, <1>8, <2>2, <2>3, <2>5 DEF Deliver, TypeOK, envVars, watchVars
  <1>9. ASSUME NEW f \in Paths, KillEntry(f) PROVE TypeOK'
    <2>1. byPath[f] \in Entries
      BY <1>0, <1>9 DEF KillEntry, TypeOK
    <2>2. /\ epc' \in [Entries -> {"none", "start", "select", "modify", "remove"}]
          /\ delay' \in [Entries -> BOOLEAN] /\ kill' \in [Procs -> BOOLEAN]
      BY <1>9, <2>1, EntryKillType DEF KillEntry
    <2> QED BY <1>0, <1>a, <1>9, <2>1, <2>2 DEF KillEntry, TypeOK, envVars, watchVars
  <1>10. CASE CallKill
    BY <1>0, <1>a, <1>10 DEF CallKill, TypeOK, envVars, watchVars, loopVars, entryVars, procVars
  <1>11. ASSUME NEW e \in Entries, NEW p \in Procs, StartProcess(e, p) PROVE TypeOK'
    BY <1>0, <1>a, <1>11 DEF StartProcess, TypeOK, envVars, watchVars, loopVars
  <1>12. ASSUME NEW e \in Entries, ProcessExit(e) PROVE TypeOK'
    BY <1>0, <1>a, <1>12 DEF ProcessExit, Reap, TypeOK, envVars, watchVars, loopVars
  <1>13. ASSUME NEW e \in Entries, Restart(e) PROVE TypeOK'
    BY <1>0, <1>a, <1>13 DEF Restart, TypeOK, envVars, watchVars, loopVars, procVars
  <1>14. ASSUME NEW e \in Entries, Killed(e) PROVE TypeOK'
    BY <1>0, <1>a, <1>14 DEF Killed, Reap, TypeOK, envVars, watchVars, loopVars
  <1>15. ASSUME NEW p \in Procs, IdleTimeout(p) \/ HandleKill(p) \/ Exit(p) PROVE TypeOK'
    BY <1>0, <1>a, <1>15
    DEF IdleTimeout, HandleKill, Exit, Kill, TypeOK, envVars, watchVars, loopVars, entryVars
  <1>16. CASE UNCHANGED vars
    BY <1>0, <1>a, <1>16 DEF vars, TypeOK, envVars, watchVars, loopVars, entryVars, procVars
  <1> QED
    BY <1>1, <1>2, <1>3, <1>4, <1>5, <1>6, <1>7, <1>8, <1>9, <1>10, <1>11, <1>12, <1>13, <1>14,
       <1>15, <1>16, EntryCases DEF Next, Loop


\* The phases of loop.
LEMMA PhaseStep == ASSUME IInv, [Next]_vars PROVE Phases'
  <1>0. Phases /\ TypeOK
    BY DEF IInv
  <1>1. ASSUME NEW e \in Entries, Entry(e) PROVE Phases'
    BY <1>0, <1>1, EntryCases
    DEF StartProcess, ProcessExit, Restart, Killed, Phases, Running, loopVars
  <1>2. ASSUME NEW f \in Paths, EventNoEntry(f) \/ EventEntry(f) PROVE Phases'
    BY <1>0, <1>2 DEF EventNoEntry, EventEntry, Phases, Running
  <1>3. CASE Quit \/ KilledEntry \/ Stop
    BY <1>0, <1>3 DEF Quit, KilledEntry, Stop, Phases, Running
  <1>4. CASE Deliver \/ CallKill \/ Scan
    BY <1>0, <1>4 DEF Deliver, CallKill, Scan, Phases, Running, loopVars
  <1>5. ASSUME NEW f \in Paths, KillEntry(f) \/ EditFile(f) PROVE Phases'
    BY <1>0, <1>5 DEF KillEntry, EditFile, Phases, Running, loopVars
  <1>6. ASSUME NEW p \in Procs, IdleTimeout(p) \/ HandleKill(p) \/ Exit(p) PROVE Phases'
    BY <1>0, <1>6 DEF IdleTimeout, HandleKill, Exit, Phases, Running, loopVars
  <1>7. CASE UNCHANGED vars
    BY <1>0, <1>7 DEF vars, Phases, Running, loopVars
  <1> QED BY <1>1, <1>2, <1>3, <1>4, <1>5, <1>6, <1>7 DEF Next, Loop

\* Steps that leave the pool and the positions of entries alone, up to those
\* that listen.
LEMMA PoolIdle ==
    ASSUME IInv, UNCHANGED <<byPath, path>>, Running' => Running,
           \A e \in Entries : \/ epc'[e] = epc[e]
                              \/ epc[e] \in {"start", "select", "modify"} /\ epc'[e] \in {"start", "select"}
                              \/ epc[e] = "remove" /\ epc'[e] = "none"
    PROVE  PoolInv'
  <1>0. TypeOK /\ PoolInv
    BY DEF IInv
  <1>1. Pooled' = Pooled
    BY DEF Pooled
  <1>2. \A f \in Pooled : byPath[f] \in Entries
    BY <1>0 DEF TypeOK, Pooled
  <1>3. EntriesListen'
    BY <1>0, <1>1, <1>2 DEF PoolInv, EntriesListen, Running
  <1> QED BY <1>0, <1>1, <1>2, <1>3 DEF PoolInv

\* byPath holds the entries that may start processes.
LEMMA PoolStep == ASSUME IInv, [Next]_vars PROVE PoolInv'
  <1>0. TypeOK /\ PoolInv /\ Phases /\ ReportInv
    BY DEF IInv
  <1>1. ASSUME NEW e \in Entries, Entry(e) PROVE PoolInv'
    <2>1. UNCHANGED <<byPath, path, kpc>>
      BY <1>1, EntryCases DEF StartProcess, ProcessExit, Restart, Killed, loopVars
    <2>2. \A d \in Entries : \/ epc'[d] = epc[d]
                             \/ epc[d] \in {"start", "select", "modify"} /\ epc'[d] \in {"start", "select"}
                             \/ epc[d] = "remove" /\ epc'[d] = "none"
      BY <1>0, <1>1, EntryCases DEF StartProcess, ProcessExit, Restart, Killed, TypeOK
    <2> QED BY <2>1, <2>2, PoolIdle DEF Running
  <1>2. ASSUME NEW f \in Paths, EventNoEntry(f) PROVE PoolInv'
    <2>1. CASE UNCHANGED <<byPath, epc, path, delay>>
      BY <1>2, <2>1, PoolIdle DEF EventNoEntry, Running
    <2>2. ASSUME NEW e \in Entries, epc[e] = "none", NewEntry(f, e) PROVE PoolInv'
      <3>1. f \notin Pooled /\ Running
        BY <1>0, <1>2 DEF EventNoEntry, Pooled, Phases
      <3>2. Pooled' = Pooled \cup {f}
        BY <1>0, <1>2, <2>2, PoolAssumption DEF NewEntry, TypeOK, Pooled
      <3>3. IsFiniteSet(Pooled')
        BY <1>0, <3>2, FS_AddElement DEF PoolInv
      <3>4. \A g \in Pooled : byPath[g] \in Entries /\ byPath[g] # e /\ byPath'[g] = byPath[g]
        BY <1>0, <2>2, <3>1 DEF PoolInv, EntriesListen, Running, NewEntry, TypeOK, Pooled
      <3>5. byPath'[f] = e /\ path'[e] = f /\ epc'[e] = "start"
        BY <1>0, <2>2 DEF NewEntry, TypeOK
      <3>6. \A d \in Entries \ {e} : path'[d] = path[d] /\ epc'[d] = epc[d]
        BY <1>0, <2>2 DEF NewEntry, TypeOK
      <3>7. \A g \in Pooled' : path'[byPath'[g]] = g
        BY <1>0, <3>2, <3>4, <3>5, <3>6 DEF PoolInv
      <3>8. ASSUME NEW d \in Entries, epc'[d] \notin {"none", "remove"} PROVE byPath'[path'[d]] = d
        <4>1. CASE d = e
          BY <3>5, <4>1
        <4>2. CASE d # e
          <5>1. byPath[path[d]] = d /\ path[d] \in Paths
            BY <1>0, <3>6, <3>8, <4>2 DEF PoolInv, TypeOK
          <5>2. path[d] \in Pooled
            BY <5>1, PoolAssumption DEF Pooled
          <5> QED BY <3>4, <3>6, <4>2, <5>1, <5>2
        <4> QED BY <4>1, <4>2
      <3>9. EntriesListen'
        BY <1>0, <3>1, <3>2, <3>4, <3>5, <3>6, <3>7 DEF PoolInv, EntriesListen, Running
      <3> QED BY <3>3, <3>7, <3>8, <3>9 DEF PoolInv
    <2> QED BY <1>2, <2>1, <2>2, AddCases DEF EventNoEntry
  <1>3. CASE Deliver
    <2> DEFINE e == byPath[event.target]
    <2>1. /\ event.target \in Paths /\ event.kind \in {"modify", "remove"} /\ e \in Entries
          /\ event.target \in Pooled /\ epc[e] = "select" /\ Running
      BY <1>0, <1>3 DEF Deliver, ReportInv, TypeOK, Events, Pooled, Phases
    <2>2. /\ \A d \in Entries \ {e} : epc'[d] = epc[d]
          /\ event.kind = "modify" => epc'[e] \in {"modify", "start"}
          /\ event.kind = "remove" => epc'[e] \in {"remove", "none"}
      BY <1>3, <2>1, EntryKillType DEF Deliver
    <2>3. UNCHANGED <<path, kpc>>
      BY <1>3 DEF Deliver
    <2>4. CASE event.kind = "modify"
      <3>1. Pooled' = Pooled /\ byPath' = byPath
        BY <1>3, <2>4 DEF Deliver, Pooled
      <3>2. \A f \in Pooled : byPath[f] \in Entries
        BY <1>0 DEF TypeOK, Pooled
      <3>3. \A d \in Entries : epc'[d] \in {"none", "remove"} <=> epc[d] \in {"none", "remove"}
        BY <2>1, <2>2, <2>4
      <3> QED BY <1>0, <2>3, <3>1, <3>2, <3>3 DEF PoolInv, EntriesListen
    <2>5. CASE event.kind = "remove"
      <3>1. byPath' = [byPath EXCEPT ![event.target] = None]
        BY <1>3, <2>5 DEF Deliver
      <3>2. Pooled' = Pooled \ {event.target}
        BY <1>0, <2>1, <3>1 DEF Pooled, TypeOK
      <3>3. IsFiniteSet(Pooled')
        BY <1>0, <3>2, FS_Subset DEF PoolInv
      <3>4. \A f \in Pooled' : byPath[f] \in Entries /\ byPath'[f] = byPath[f] /\ byPath[f] # e
        BY <1>0, <2>1, <3>1, <3>2 DEF PoolInv, TypeOK, Pooled
      <3>5. ASSUME NEW d \in Entries, epc'[d] \notin {"none", "remove"} PROVE byPath'[path'[d]] = d
        <4>1. d # e /\ byPath[path[d]] = d /\ path[d] \in Paths
          BY <1>0, <2>2, <2>5, <3>5 DEF PoolInv, TypeOK
        <4>2. path[d] # event.target
          BY <4>1
        <4> QED BY <1>0, <2>3, <3>1, <4>1, <4>2 DEF TypeOK
      <3>6. EntriesListen'
        BY <1>0, <2>1, <2>2, <2>3, <3>2, <3>4 DEF PoolInv, EntriesListen, Running
      <3> QED BY <1>0, <2>3, <3>2, <3>3, <3>4, <3>5, <3>6 DEF PoolInv
    <2> QED BY <2>1, <2>4, <2>5
  <1>4. ASSUME NEW f \in Paths, KillEntry(f) PROVE PoolInv'
    <2>1. byPath[f] \in Entries /\ ~Running /\ UNCHANGED <<byPath, path, kpc>>
      BY <1>0, <1>4 DEF KillEntry, TypeOK, Phases
    <2>2. \A d \in Entries : epc'[d] \notin {"none", "remove"} => epc[d] \notin {"none", "remove"}
      BY <1>4, <2>1, EntryKillType DEF KillEntry
    <2>3. Pooled' = Pooled /\ EntriesListen'
      BY <2>1 DEF Pooled, EntriesListen, Running
    <2> QED BY <1>0, <2>1, <2>2, <2>3 DEF PoolInv
  <1>5. ASSUME NEW f \in Paths, EventEntry(f) \/ EditFile(f) PROVE PoolInv'
    BY <1>5, PoolIdle DEF EventEntry, EditFile, loopVars, entryVars, Running
  <1>6. CASE Scan \/ CallKill \/ Quit \/ KilledEntry \/ Stop
    BY <1>6, PoolIdle DEF Scan, CallKill, Quit, KilledEntry, Stop, loopVars, entryVars, Running
  <1>7. ASSUME NEW p \in Procs, IdleTimeout(p) \/ HandleKill(p) \/ Exit(p) PROVE PoolInv'
    BY <1>7, PoolIdle DEF IdleTimeout, HandleKill, Exit, loopVars, entryVars, Running
  <1>8. CASE UNCHANGED vars
    BY <1>8, PoolIdle DEF vars, loopVars, entryVars, Running
  <1> QED BY <1>1, <1>2, <1>3, <1>4, <1>5, <1>6, <1>7, <1>8 DEF Next, Loop


\* Steps that tell loop nothing and leave the pool alone.
LEMMA ReportIdle ==
    ASSUME IInv, \A f \in Paths : Reported(f)' = Reported(f), Running' => Running,
           UNCHANGED byPath,
           UNCHANGED <<lpc, event>> \/ (lpc' # "deliver" /\ lpc # "deliver")
    PROVE  ReportInv'
  <1>0. TypeOK /\ ReportInv /\ Pooled' = Pooled /\ Pooled \subseteq Paths
    BY DEF IInv, Pooled
  <1> QED BY <1>0 DEF ReportInv

\* The pool holds only files that were reported and not reported removed.
LEMMA ReportStep == ASSUME IInv, [Next]_vars PROVE ReportInv'
  <1>0. TypeOK /\ PoolInv /\ Phases /\ ReportInv
    BY DEF IInv
  <1>a. ASSUME UNCHANGED <<wpc, have, last, told>> PROVE \A f \in Paths : Reported(f)' = Reported(f)
    BY <1>a DEF Reported
  <1>1. ASSUME NEW e \in Entries, Entry(e) PROVE ReportInv'
    <2>1. UNCHANGED <<watchVars, loopVars, kpc>>
      BY <1>1, EntryCases DEF StartProcess, ProcessExit, Restart, Killed
    <2> QED BY <1>a, <2>1, ReportIdle DEF watchVars, loopVars, Running
  <1>2. ASSUME NEW f \in Paths, EventNoEntry(f) PROVE ReportInv'
    <2>1. /\ \A g \in Paths \ {f} : Reported(g)' = Reported(g)
          /\ Reported(f)' = have[f] /\ lpc = "select" /\ lpc' = "select" /\ f \notin Pooled
      BY <1>0, <1>2, TellReported DEF EventNoEntry, Pooled
    <2>2. CASE UNCHANGED byPath
      <3>1. Pooled' = Pooled /\ Pooled \subseteq Paths /\ Running
        BY <1>0, <2>1, <2>2 DEF Pooled, Phases
      <3> QED BY <1>0, <2>1, <3>1 DEF ReportInv
    <2>3. CASE Kind(f) = "create" /\ byPath' # byPath
      <3>1. have[f] # 0
        BY <2>3 DEF Kind
      <3>2. Pooled' \subseteq Pooled \cup {f} /\ Pooled \subseteq Paths /\ Running
        BY <1>0, <1>2, <2>1, <2>3, AddCases DEF EventNoEntry, NewEntry, TypeOK, Pooled, Phases
      <3> QED BY <1>0, <2>1, <3>1, <3>2 DEF ReportInv
    <2> QED BY <1>2, <2>2, <2>3 DEF EventNoEntry
  <1>3. ASSUME NEW f \in Paths, EventEntry(f) PROVE ReportInv'
    <2>1. /\ \A g \in Paths \ {f} : Reported(g)' = Reported(g)
          /\ Reported(f) = last[f] /\ Reported(f)' = have[f]
      BY <1>0, <1>3, TellReported DEF EventEntry
    <2>2. /\ lpc = "select" /\ lpc' = "deliver" /\ f \in Pooled /\ Running
          /\ Pooled' = Pooled /\ Pooled \subseteq Paths
          /\ event' = [target |-> f, kind |-> Kind(f)]
      BY <1>0, <1>3 DEF EventEntry, Pooled, Phases
    <2>3. last[f] # 0
      BY <1>0, <2>1, <2>2 DEF ReportInv
    <2>4. Kind(f) = IF have[f] = 0 THEN "remove" ELSE "modify"
      BY <2>3 DEF Kind
    <2>5. event' # None
      BY <2>2, <2>4, NoneAssumption DEF Events
    <2> QED BY <1>0, <2>1, <2>2, <2>4, <2>5 DEF ReportInv
  <1>4. CASE Deliver
    <2>1. /\ event.target \in Pooled /\ event.kind \in {"modify", "remove"} /\ Running
          /\ event = [target |-> event.target, kind |-> event.kind]
      BY <1>0, <1>4 DEF Deliver, ReportInv, TypeOK, Events, Phases
    <2>2. \A f \in Paths : Reported(f)' = Reported(f)
      BY <1>a, <1>4 DEF Deliver, watchVars
    <2>3. ASSUME NEW f \in Pooled' PROVE f \in Pooled /\ Reported(f) # 0
      <3>1. f \in Pooled /\ (event.kind = "remove" => f # event.target)
        BY <1>0, <1>4, <2>1, <2>3 DEF Deliver, Pooled, TypeOK
      <3> QED BY <1>0, <2>1, <3>1 DEF ReportInv
    <2> QED BY <1>4, <2>2, <2>3 DEF Deliver, ReportInv, Pooled
  <1>5. CASE Scan
    <2>1. \A f \in Paths : Reported(f)' = Reported(f)
      BY <1>0, <1>5 DEF Scan, Reported
    <2> QED BY <1>5, <2>1, ReportIdle DEF Scan, loopVars, Running
  <1>6. CASE CallKill
    BY <1>a, <1>6, ReportIdle DEF CallKill, watchVars, loopVars, Running
  <1>7. CASE Quit \/ KilledEntry
    BY <1>a, <1>7, ReportIdle DEF Quit, KilledEntry, watchVars, Running
  <1>8. CASE Stop
    <2>1. \A f \in Paths : Reported(f)' = Reported(f)
      BY <1>8 DEF Stop, Reported
    <2> QED BY <1>8, <2>1, ReportIdle DEF Stop, Running
  <1>9. ASSUME NEW f \in Paths, KillEntry(f) \/ EditFile(f) PROVE ReportInv'
    BY <1>a, <1>9, ReportIdle DEF KillEntry, EditFile, watchVars, loopVars, Running
  <1>10. ASSUME NEW p \in Procs, IdleTimeout(p) \/ HandleKill(p) \/ Exit(p) PROVE ReportInv'
    BY <1>a, <1>10, ReportIdle DEF IdleTimeout, HandleKill, Exit, watchVars, loopVars, Running
  <1>11. CASE UNCHANGED vars
    BY <1>a, <1>11, ReportIdle DEF vars, watchVars, loopVars, Running
  <1> QED
    BY <1>1, <1>2, <1>3, <1>4, <1>5, <1>6, <1>7, <1>8, <1>9, <1>10, <1>11 DEF Next, Loop

\* Steps that leave ownership and the existence of processes alone.
LEMMA ProcIdle ==
    ASSUME ProcInv, UNCHANGED proc, \A e \in Entries : Owns(e)' = Owns(e),
           \A p \in Procs : pst'[p] = "none" <=> pst[p] = "none"
    PROVE  ProcInv'
  BY DEF ProcInv

\* Each process that was not reaped has one entry, and each entry one process.
LEMMA ProcStep == ASSUME IInv, [Next]_vars PROVE ProcInv'
  <1>0. TypeOK /\ PoolInv /\ ReportInv /\ ProcInv /\ DelayInv
    BY DEF IInv
  <1>a. ASSUME UNCHANGED <<epc, delay>> PROVE \A e \in Entries : Owns(e)' = Owns(e)
    BY <1>a DEF Owns
  <1>b. ASSUME NEW e \in Entries, NEW k \in {"modify", "remove"},
               epc[e] = "select", EntryKill(e, k), UNCHANGED <<proc, pst>>
        PROVE  ProcInv'
    <2>1. \A d \in Entries : Owns(d)' = Owns(d)
      BY <1>0, <1>b, EntryKillType DEF Owns
    <2> QED BY <1>0, <1>b, <2>1, ProcIdle
  <1>1. ASSUME NEW f \in Paths, EventNoEntry(f) PROVE ProcInv'
    <2>1. \A e \in Entries : Owns(e)' = Owns(e)
      <3>1. CASE UNCHANGED <<epc, delay>>
        BY <1>a, <3>1
      <3>2. ASSUME NEW e \in Entries, epc[e] = "none", NewEntry(f, e)
            PROVE  \A d \in Entries : Owns(d)' = Owns(d)
        BY <1>0, <3>2 DEF NewEntry, TypeOK, Owns
      <3> QED BY <1>1, <3>1, <3>2, AddCases DEF EventNoEntry
    <2> QED BY <1>0, <1>1, <2>1, ProcIdle DEF EventNoEntry, procVars
  <1>2. CASE Deliver
    <2>1. byPath[event.target] \in Entries /\ event.kind \in {"modify", "remove"}
      BY <1>0, <1>2 DEF Deliver, ReportInv, TypeOK, Events, Pooled
    <2> QED BY <1>b, <1>2, <2>1 DEF Deliver
  <1>3. ASSUME NEW f \in Paths, KillEntry(f) PROVE ProcInv'
    <2>1. byPath[f] \in Entries
      BY <1>0, <1>3 DEF KillEntry, TypeOK
    <2> QED BY <1>b, <1>3, <2>1 DEF KillEntry
  <1>4. ASSUME NEW e \in Entries, NEW p \in Procs, pst[p] = "none", StartProcess(e, p) PROVE ProcInv'
    <2>1. /\ \A d \in Entries \ {e} : proc'[d] = proc[d] /\ Owns(d)' = Owns(d)
          /\ proc'[e] = p /\ ~Owns(e)
          /\ pst'[p] # "none" /\ \A q \in Procs \ {p} : pst'[q] = pst[q]
      BY <1>0, <1>4 DEF StartProcess, TypeOK, Owns
    <2>2. CASE Owns(e)'
      BY <1>0, <1>4, <2>1, <2>2 DEF ProcInv
    <2>3. Owns(e)'
      BY <1>0, <1>4 DEF StartProcess, TypeOK, Owns, DelayInv
    <2> QED BY <2>2, <2>3
  <1>5. ASSUME NEW e \in Entries, ProcessExit(e) \/ Killed(e) PROVE ProcInv'
    <2>1. /\ Owns(e) /\ ~Owns(e)'
          /\ \A d \in Entries \ {e} : proc'[d] = proc[d] /\ Owns(d)' = Owns(d)
      BY <1>0, <1>5 DEF ProcessExit, Killed, TypeOK, Owns
    <2>2. proc[e] \in Procs
      BY <1>0, <2>1 DEF ProcInv
    <2>3. pst'[proc[e]] = "none" /\ \A q \in Procs \ {proc[e]} : pst'[q] = pst[q]
      BY <1>0, <1>5, <2>2 DEF ProcessExit, Killed, Reap, TypeOK
    <2> QED BY <1>0, <2>1, <2>2, <2>3 DEF ProcInv
  <1>6. ASSUME NEW e \in Entries, Restart(e) PROVE ProcInv'
    <2>1. \A d \in Entries : Owns(d)' = Owns(d)
      BY <1>0, <1>6 DEF Restart, TypeOK, Owns
    <2> QED BY <1>0, <1>6, <2>1, ProcIdle DEF Restart, procVars
  <1>7. ASSUME NEW p \in Procs, IdleTimeout(p) \/ HandleKill(p) \/ Exit(p) PROVE ProcInv'
    <2>1. \A q \in Procs : pst'[q] = "none" <=> pst[q] = "none"
      BY <1>0, <1>7 DEF IdleTimeout, HandleKill, Exit, TypeOK
    <2> QED BY <1>0, <1>a, <1>7, <2>1, ProcIdle DEF IdleTimeout, HandleKill, Exit, entryVars
  <1>8. CASE Scan \/ Quit \/ KilledEntry \/ Stop \/ CallKill
    BY <1>0, <1>a, <1>8, ProcIdle DEF Scan, Quit, KilledEntry, Stop, CallKill, entryVars, procVars
  <1>9. ASSUME NEW f \in Paths, EventEntry(f) \/ EditFile(f) PROVE ProcInv'
    BY <1>0, <1>a, <1>9, ProcIdle DEF EventEntry, EditFile, entryVars, procVars
  <1>10. CASE UNCHANGED vars
    BY <1>0, <1>a, <1>10, ProcIdle DEF vars, entryVars, procVars
  <1> QED
    BY <1>1, <1>2, <1>3, <1>4, <1>5, <1>6, <1>7, <1>8, <1>9, <1>10, EntryCases DEF Next, Loop


\* RestartDelay is set only between processes.
LEMMA DelayStep == ASSUME IInv, [Next]_vars PROVE DelayInv'
  <1>0. TypeOK /\ ReportInv /\ DelayInv
    BY DEF IInv
  <1>a. ASSUME UNCHANGED <<epc, delay>> PROVE DelayInv'
    BY <1>0, <1>a DEF DelayInv
  <1>b. ASSUME NEW e \in Entries, NEW k \in {"modify", "remove"}, epc[e] = "select", EntryKill(e, k)
        PROVE  DelayInv'
    BY <1>0, <1>b DEF EntryKill, DelayInv, TypeOK
  <1>1. ASSUME NEW e \in Entries, Entry(e) PROVE DelayInv'
    BY <1>0, <1>1, EntryCases DEF StartProcess, ProcessExit, Restart, Killed, DelayInv, TypeOK
  <1>2. ASSUME NEW f \in Paths, EventNoEntry(f) PROVE DelayInv'
    BY <1>0, <1>a, <1>2, AddCases DEF EventNoEntry, NewEntry, DelayInv, TypeOK
  <1>3. CASE Deliver
    <2>1. byPath[event.target] \in Entries /\ event.kind \in {"modify", "remove"}
      BY <1>0, <1>3 DEF Deliver, ReportInv, TypeOK, Events, Pooled
    <2> QED BY <1>b, <1>3, <2>1 DEF Deliver
  <1>4. ASSUME NEW f \in Paths, KillEntry(f) PROVE DelayInv'
    <2>1. byPath[f] \in Entries
      BY <1>0, <1>4 DEF KillEntry, TypeOK
    <2> QED BY <1>b, <1>4, <2>1 DEF KillEntry
  <1>5. ASSUME NEW f \in Paths, EventEntry(f) \/ EditFile(f) PROVE DelayInv'
    BY <1>a, <1>5 DEF EventEntry, EditFile, entryVars
  <1>6. CASE Scan \/ CallKill \/ Quit \/ KilledEntry \/ Stop
    BY <1>a, <1>6 DEF Scan, CallKill, Quit, KilledEntry, Stop, entryVars
  <1>7. ASSUME NEW p \in Procs, IdleTimeout(p) \/ HandleKill(p) \/ Exit(p) PROVE DelayInv'
    BY <1>a, <1>7 DEF IdleTimeout, HandleKill, Exit, entryVars
  <1>8. CASE UNCHANGED vars
    BY <1>a, <1>8 DEF vars, entryVars
  <1> QED BY <1>1, <1>2, <1>3, <1>4, <1>5, <1>6, <1>7, <1>8 DEF Next, Loop

\* After Kill only removed entries are left, and they only end.
LEMMA KillStep == ASSUME IInv, [Next]_vars PROVE KillInv'
  <1>0. TypeOK /\ PoolInv /\ Phases /\ KillInv
    BY DEF IInv
  <1>1. CASE Stop
    <2>1. UNCHANGED <<epc, byPath>> /\ Pooled' = Pooled /\ AllKilled
      BY <1>1 DEF Stop, entryVars, Pooled
    <2>2. ASSUME NEW e \in Entries, epc[e] \notin {"none", "remove"} PROVE FALSE
      <3>1. byPath[path[e]] = e /\ path[e] \in Paths
        BY <1>0, <2>2 DEF PoolInv, TypeOK
      <3>2. path[e] \in Pooled
        BY <3>1, PoolAssumption DEF Pooled
      <3> QED BY <2>1, <2>2, <3>1, <3>2
    <2> QED BY <2>1, <2>2 DEF KillInv
  <1>2. CASE kpc = "returned" /\ ~Stop
    <2>1. lpc = "done" /\ \A e \in Entries : epc[e] \in {"none", "remove"}
      BY <1>0, <1>2 DEF Phases, KillInv
    <2>2. \A f \in Pooled : byPath[f] \in Entries /\ epc[byPath[f]] = "none"
      BY <1>0, <1>2 DEF KillInv, TypeOK, Pooled
    <2>3. ASSUME UNCHANGED byPath,
                 \A e \in Entries : epc'[e] = epc[e] \/ (epc[e] = "remove" /\ epc'[e] = "none")
          PROVE  KillInv'
      <3>1. Pooled' = Pooled
        BY <2>3 DEF Pooled
      <3> QED BY <2>1, <2>2, <2>3, <3>1 DEF KillInv
    <2>4. ASSUME NEW e \in Entries, Entry(e) PROVE KillInv'
      <3>1. Killed(e)
        BY <2>1, <2>4, EntryCases DEF StartProcess, ProcessExit, Restart
      <3> QED BY <1>0, <2>1, <2>3, <3>1 DEF Killed, loopVars, TypeOK
    <2>5. ASSUME NEW f \in Paths, EditFile(f) PROVE KillInv'
      BY <2>3, <2>5 DEF EditFile, loopVars, entryVars
    <2>6. CASE Scan
      BY <2>3, <2>6 DEF Scan, loopVars, entryVars
    <2>7. ASSUME NEW p \in Procs, IdleTimeout(p) \/ HandleKill(p) \/ Exit(p) PROVE KillInv'
      BY <2>3, <2>7 DEF IdleTimeout, HandleKill, Exit, loopVars, entryVars
    <2>8. CASE UNCHANGED vars
      BY <2>3, <2>8 DEF vars, loopVars, entryVars
    <2>9. /\ ~Quit /\ ~KilledEntry /\ ~Deliver /\ ~CallKill
          /\ \A f \in Paths : ~EventNoEntry(f) /\ ~EventEntry(f) /\ ~KillEntry(f)
      BY <1>2, <2>1 DEF Quit, KilledEntry, Deliver, CallKill, EventNoEntry, EventEntry, KillEntry
    <2> QED BY <1>2, <2>4, <2>5, <2>6, <2>7, <2>8, <2>9 DEF Next, Loop
  <1>3. CASE kpc # "returned" /\ ~Stop
    <2>1. kpc' # "returned"
      <3>1. ASSUME NEW e \in Entries, Entry(e) PROVE kpc' = kpc
        BY <3>1, EntryCases DEF StartProcess, ProcessExit, Restart, Killed
      <3> QED BY <1>3, <3>1
          DEF Next, Loop, EditFile, Scan, EventNoEntry, EventEntry, Quit, KilledEntry, Deliver,
              KillEntry, CallKill, IdleTimeout, HandleKill, Exit, vars
    <2> QED BY <2>1 DEF KillInv
  <1> QED BY <1>1, <1>2, <1>3

-------------------------------------------------------------------------------
(* Theorems.                                                                 *)

\* The invariant holds in every reachable state.
THEOREM InductiveInvariant == Spec => []IInv
  <1>1. Init => IInv
    BY InitInv
  <1>2. IInv /\ [Next]_vars => IInv'
    BY TypeStep, PhaseStep, PoolStep, ReportStep, DelayStep, ProcStep, KillStep DEF IInv
  <1> QED BY <1>1, <1>2, PTL DEF Spec

\* The pool keeps its types, and never holds more programs than MaxProcs.
THEOREM TypeCorrect == Spec => []TypeOK
  <1>1. IInv => TypeOK
    BY DEF IInv
  <1> QED BY <1>1, InductiveInvariant, PTL

\* loop never hands a create event to a running entry, whose mainloop would
\* panic: watcher and pool agree on which files have been announced.
THEOREM EventsExpected == Spec => []NoUnexpectedEvent
  <1>1. IInv => NoUnexpectedEvent
    BY DEF IInv, ReportInv, NoUnexpectedEvent
  <1> QED BY <1>1, InductiveInvariant, PTL

\* The entries that loop sends events to have not returned.
THEOREM EntriesAlwaysListen == Spec => []EntriesListen
  <1>1. IInv => EntriesListen
    BY DEF IInv, PoolInv
  <1> QED BY <1>1, InductiveInvariant, PTL

\* A process that handleKill has not reported is watched over by an entry.
THEOREM ProcessesOwned == Spec => []NoOrphan
  <1>1. IInv => NoOrphan
    BY DEF IInv, ProcInv, NoOrphan, Owns, Alive
  <1> QED BY <1>1, InductiveInvariant, PTL

\* Once Pool.Kill has returned no process is ever started.
THEOREM KillIsFinal == Spec => KillEndsStarts
  <1> DEFINE Quiet == kpc = "returned" =>
                        \A p \in Procs : pst'[p] = "running" => pst[p] = "running"
  <1>1. IInv /\ [Next]_vars => Quiet
    <2> SUFFICES ASSUME IInv, [Next]_vars, kpc = "returned",
                        NEW p \in Procs, pst'[p] = "running"
                 PROVE  pst[p] = "running"
      OBVIOUS
    <2>0. pst \in [Procs -> {"none", "running", "dying", "exited"}] /\ proc \in [Entries -> Procs \cup {None}]
      BY DEF IInv, TypeOK
    <2>1. lpc = "done" /\ \A e \in Entries : epc[e] \in {"none", "remove"}
      BY DEF IInv, Phases, KillInv
    <2>2. ASSUME UNCHANGED pst PROVE pst[p] = "running"
      BY <2>2
    <2>3. ASSUME NEW e \in Entries, Entry(e) PROVE pst[p] = "running"
      <3>1. Killed(e)
        BY <2>1, <2>3, EntryCases DEF StartProcess, ProcessExit, Restart
      <3>2. pst' = [pst EXCEPT ![proc[e]] = "none"]
        BY <3>1 DEF Killed, Reap
      <3> QED BY <2>0, <3>2
    <2>4. ASSUME NEW q \in Procs, HandleKill(q) \/ Exit(q) PROVE pst[p] = "running"
      BY <2>0, <2>4 DEF HandleKill, Exit
    <2>5. ASSUME NEW q \in Procs, IdleTimeout(q) PROVE pst[p] = "running"
      BY <2>2, <2>5 DEF IdleTimeout
    <2>6. CASE Loop \/ Deliver \/ \E f \in Paths : KillEntry(f)
      BY <2>1, <2>6 DEF Loop, EventNoEntry, EventEntry, Quit, KilledEntry, Stop, Deliver, KillEntry
    <2>7. CASE CallKill \/ Scan \/ \E f \in Paths : EditFile(f)
      BY <2>2, <2>7 DEF CallKill, Scan, EditFile, procVars
    <2>8. CASE UNCHANGED vars
      BY <2>2, <2>8 DEF vars, procVars
    <2> QED BY <2>3, <2>4, <2>5, <2>6, <2>7, <2>8 DEF Next
  <1>2. Spec => []IInv
    BY InductiveInvariant
  <1> QED BY <1>1, <1>2, PTL DEF Spec, KillEndsStarts
===============================================================================
