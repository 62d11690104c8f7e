------------------------------ MODULE PluginPool ------------------------------
(***************************************************************************)
(* The plugin processes of a forwarder: internal/collect/pool.go and       *)
(* process.go, and the directory watcher of internal/config/directory.go   *)
(* that drives them.                                                       *)
(*                                                                         *)
(* The watcher compares scans of the plugin directory and sends one event  *)
(* per difference.  The pool's loop starts a directory entry for each      *)
(* created file, up to MaxProc, and passes other events on to the entry.   *)
(* An entry runs its program in one process at a time, restarts it when it *)
(* exits or the file is modified, and kills it when the file is removed.   *)
(* All channels involved are unbuffered, so a send is a step of sender and *)
(* receiver together, except Exit and killChan, which hold one element.    *)
(*                                                                         *)
(* A file is represented by its version, which stands for its mode and     *)
(* modification time.  What processes print is not modelled; that the      *)
(* decoder of their output may find them idle is.                          *)
(***************************************************************************)
EXTENDS Naturals, FiniteSets, Functions

CONSTANTS
    Paths,    \* the files of the plugin directory
    Entries,  \* identities of directory entries
    Procs,    \* identities of processes
    MaxProcs, \* the values of MaxProc to explore
    MaxEdits, \* bound on the changes of files
    None      \* no entry, no process, no event

ASSUME PoolAssumption ==
    /\ Paths # {}
    /\ MaxProcs \subseteq Nat /\ MaxEdits \in Nat
    /\ None \notin Entries /\ None \notin Procs

VARIABLES
    \* the file system, and the limit
    file,      \* version of each file, 0 if there is none
    edits,     \* number of changes so far
    maxProc,   \* MaxProc, the limit on entries
    \* Directory
    wpc,       \* where watch is
    have,      \* the scan under way
    last,      \* the previous scan
    told,      \* paths whose event of this scan was delivered
    \* Pool
    lpc,       \* where loop is
    event,     \* the event loop is passing on
    byPath,    \* the entry of a path
    rejected,  \* paths that add refused
    killing,   \* the entry loop is killing
    kpc,       \* the caller of Kill
    \* directory entries
    epc,       \* where mainloop is
    path,      \* the entry's path
    delay,     \* RestartDelay # nil
    proc,      \* the entry's process
    \* processes
    pst,       \* its state; "exited" means that Exit holds its status
    kill,      \* killChan holds a request
    ver        \* the version of the file it executes

envVars   == <<file, edits, maxProc>>
watchVars == <<wpc, have, last, told>>
loopVars  == <<lpc, event, byPath, rejected, killing>>
entryVars == <<epc, path, delay, proc>>
procVars  == <<pst, kill, ver>>
vars == <<envVars, watchVars, loopVars, kpc, entryVars, procVars>>

Versions == 0..MaxEdits
Events   == [target : Paths, kind : {"create", "modify", "remove"}]

ASSUME NoneAssumption == None \notin Events

Pooled == {f \in Paths : byPath[f] # None}

\* The types of the variables; the pool keeps to its limit.
TypeOK ==
    /\ file \in [Paths -> Versions] /\ edits \in Versions
    /\ wpc \in {"wait", "send", "stopped"}
    /\ have \in [Paths -> Versions] /\ last \in [Paths -> Versions]
    /\ told \subseteq Paths
    /\ lpc \in {"select", "deliver", "kill", "killwait", "stop", "done"}
    /\ event \in Events \cup {None}
    /\ byPath \in [Paths -> Entries \cup {None}]
    /\ Cardinality(Pooled) <= maxProc
    /\ rejected \subseteq Paths
    /\ maxProc \in Nat
    /\ killing \in Entries \cup {None}
    /\ kpc \in {"idle", "asked", "taken", "returned"}
    /\ epc \in [Entries -> {"none", "start", "select", "modify", "remove"}]
    /\ path \in [Entries -> Paths]
    /\ delay \in [Entries -> BOOLEAN]
    /\ proc \in [Entries -> Procs \cup {None}]
    /\ pst \in [Procs -> {"none", "running", "dying", "exited"}]
    /\ kill \in [Procs -> BOOLEAN]
    /\ ver \in [Procs -> Versions]

Init ==
    /\ file = [f \in Paths |-> 0] /\ edits = 0
    /\ wpc = "wait"
    /\ have = [f \in Paths |-> 0] /\ last = [f \in Paths |-> 0]
    /\ told = {}
    /\ lpc = "select" /\ event = None
    /\ byPath = [f \in Paths |-> None]
    /\ rejected = {}
    /\ maxProc \in MaxProcs
    /\ killing = None
    /\ kpc = "idle"
    /\ epc = [e \in Entries |-> "none"]
    /\ path = [e \in Entries |-> CHOOSE f \in Paths : TRUE]
    /\ delay = [e \in Entries |-> FALSE]
    /\ proc = [e \in Entries |-> None]
    /\ pst = [p \in Procs |-> "none"]
    /\ kill = [p \in Procs |-> FALSE]
    /\ ver = [p \in Procs |-> 0]

-------------------------------------------------------------------------------
(* The file system (external): a file is created or modified, or removed.    *)
EditFile(f) ==
    /\ edits < MaxEdits
    /\ edits' = edits + 1
    /\ \/ file' = [file EXCEPT ![f] = edits + 1]
       \/ file[f] # 0 /\ file' = [file EXCEPT ![f] = 0]
    /\ UNCHANGED <<maxProc, watchVars, loopVars, kpc, entryVars, procVars>>

-------------------------------------------------------------------------------
(* Directory.                                                                *)

\* diff walks the directory.  A scan without differences has no effect.
Scan ==
    /\ wpc = "wait" /\ file # last
    /\ have' = file
    /\ told' = {}
    /\ wpc' = "send"
    /\ UNCHANGED <<envVars, last, loopVars, kpc, entryVars, procVars>>

\* The paths for which diff has an event: the ones found first, in any order.
Found   == {f \in Paths \ told : have[f] # 0 /\ have[f] # last[f]}
Missing == {f \in Paths \ told : have[f] = 0 /\ last[f] # 0}
Due     == IF Found # {} THEN Found ELSE Missing

Kind(f) == IF have[f] = 0 THEN "remove" ELSE IF last[f] = 0 THEN "create" ELSE "modify"

\* Mutant of Compared: the directory is read again.
ComparedAgain == file

\* What the next scan is compared with.
Compared == have

\* The event of f is delivered; after the last one diff is done.
Tell(f) ==
    IF Found \cup Missing = {f}
    THEN wpc' = "wait" /\ last' = Compared /\ told' = {}
    ELSE told' = told \cup {f} /\ UNCHANGED <<wpc, last>>

-------------------------------------------------------------------------------
(* Pool.                                                                     *)

\* newEntry; mainloop starts the process in its own time.
NewEntry(f, e) ==
    /\ byPath' = [byPath EXCEPT ![f] = e]
    /\ epc' = [epc EXCEPT ![e] = "start"]
    /\ path' = [path EXCEPT ![e] = f]
    /\ delay' = [delay EXCEPT ![e] = FALSE]
    /\ UNCHANGED rejected

\* Mutant of LimitReached: off by one.
LimitReachedLate == Cardinality(Pooled) = maxProc + 1

LimitReached == Cardinality(Pooled) = maxProc

FreeEntries == {e \in Entries : epc[e] = "none"}

\* add
Add(f) ==
    \/ /\ LimitReached
       /\ rejected' = rejected \cup {f}
       /\ UNCHANGED <<byPath, epc, path, delay>>
    \/ /\ ~LimitReached /\ FreeEntries # {}
       /\ NewEntry(f, CHOOSE e \in FreeEntries : TRUE)

\* loop receives an event for a path without an entry.
EventNoEntry(f) ==
    /\ wpc = "send" /\ lpc = "select" /\ f \in Due
    /\ byPath[f] = None
    /\ Tell(f)
    /\ \/ Kind(f) = "create" /\ Add(f)
       \/ /\ Kind(f) # "create"
          /\ rejected' = IF Kind(f) = "remove" THEN rejected \ {f} ELSE rejected
          /\ UNCHANGED <<byPath, epc, path, delay>>
    /\ UNCHANGED <<envVars, have, lpc, event, killing, kpc, proc, procVars>>

\* loop receives an event that it has to pass on.
EventEntry(f) ==
    /\ wpc = "send" /\ lpc = "select" /\ f \in Due
    /\ byPath[f] # None
    /\ Tell(f)
    /\ lpc' = "deliver"
    /\ event' = [target |-> f, kind |-> Kind(f)]
    /\ UNCHANGED <<envVars, have, byPath, rejected, killing, kpc, entryVars, procVars>>

\* process.Kill
Kill(p) == kill' = [kill EXCEPT ![p] = TRUE]

\* Mutant of AfterKill: a modified program is not waited for.
AfterKillNow(kind) == IF kind = "modify" THEN "start" ELSE kind

\* mainloop waits for the killed process.
AfterKill(kind) == kind

\* mainloop on a modify or remove event: kill the process and wait for it,
\* unless it is waiting to be restarted.
EntryKill(e, kind) ==
    \/ /\ ~delay[e]
       /\ Kill(proc[e])
       /\ epc' = [epc EXCEPT ![e] = AfterKill(kind)]
       /\ UNCHANGED delay
    \/ /\ delay[e]
       /\ epc' = [epc EXCEPT ![e] = IF kind = "modify" THEN "start" ELSE "none"]
       /\ delay' = [delay EXCEPT ![e] = FALSE]
       /\ UNCHANGED kill

\* Mutant of Del: a removed entry stays.
DelNot(f) == byPath

\* del
Del(f) == [byPath EXCEPT ![f] = None]

\* loop hands the event to the entry's mainloop, which must be in its select.
\* A create event would make mainloop panic; see NoUnexpectedEvent.
Deliver ==
    /\ lpc = "deliver"
    /\ epc[byPath[event.target]] = "select"
    /\ EntryKill(byPath[event.target], event.kind)
    /\ byPath' = IF event.kind = "remove" THEN Del(event.target) ELSE byPath
    /\ lpc' = "select" /\ event' = None
    /\ UNCHANGED <<envVars, watchVars, rejected, killing, kpc, path, proc, pst, ver>>

\* Pool.Kill is called, by the restart on a new configuration.
CallKill ==
    /\ kpc = "idle" /\ kpc' = "asked"
    /\ UNCHANGED <<envVars, watchVars, loopVars, entryVars, procVars>>

\* loop accepts the request.
Quit ==
    /\ kpc = "asked" /\ lpc = "select"
    /\ kpc' = "taken"
    /\ lpc' = "kill"
    /\ UNCHANGED <<envVars, watchVars, event, byPath, rejected, killing, entryVars, procVars>>

\* directoryEntry.Kill: the entries of byPath one after the other, in any
\* order.  They stay in byPath.
KillEntry(f) ==
    /\ lpc = "kill" /\ byPath[f] # None
    /\ epc[byPath[f]] = "select"
    /\ EntryKill(byPath[f], "remove")
    /\ killing' = byPath[f]
    /\ lpc' = "killwait"
    /\ UNCHANGED <<envVars, watchVars, event, byPath, rejected, kpc, path, proc, pst, ver>>

\* mainloop has closed the channel.
KilledEntry ==
    /\ lpc = "killwait" /\ epc[killing] = "none"
    /\ lpc' = "kill" /\ killing' = None
    /\ UNCHANGED <<envVars, watchVars, event, byPath, rejected, kpc, entryVars, procVars>>

\* Mutant of AllKilled: entries that are not in their select are passed over.
AllKilledIdle == \A f \in Pooled : epc[byPath[f]] # "select"

\* Every entry has been killed.
AllKilled == \A f \in Pooled : epc[byPath[f]] = "none"

\* loop stops the watcher, which must be in its select, and Kill returns.
Stop ==
    /\ lpc = "kill" /\ AllKilled
    /\ wpc = "wait" /\ wpc' = "stopped"
    /\ lpc' = "done"
    /\ kpc' = "returned"
    /\ UNCHANGED <<envVars, have, last, told, event, byPath, rejected, killing,
                   entryVars, procVars>>

-------------------------------------------------------------------------------
(* directoryEntry.mainloop.                                                  *)

\* startProcess.  If it fails, Exit holds the error at once.
StartProcess(e, p) ==
    /\ epc[e] = "start"
    /\ epc' = [epc EXCEPT ![e] = "select"]
    /\ proc' = [proc EXCEPT ![e] = p]
    /\ kill' = [kill EXCEPT ![p] = FALSE]
    /\ ver' = [ver EXCEPT ![p] = file[path[e]]]
    /\ \/ file[path[e]] # 0 /\ pst' = [pst EXCEPT ![p] = "running"]
       \/ pst' = [pst EXCEPT ![p] = "exited"]
    /\ UNCHANGED <<envVars, watchVars, loopVars, kpc, path, delay>>

\* <-process.Exit
Reap(e) == pst[proc[e]] = "exited" /\ pst' = [pst EXCEPT ![proc[e]] = "none"]

\* The process exited by itself: restart delays the next one.
ProcessExit(e) ==
    /\ epc[e] = "select" /\ ~delay[e]
    /\ Reap(e)
    /\ delay' = [delay EXCEPT ![e] = TRUE]
    /\ proc' = [proc EXCEPT ![e] = None]
    /\ UNCHANGED <<envVars, watchVars, loopVars, kpc, epc, path, kill, ver>>

\* RestartDelay is over.
Restart(e) ==
    /\ epc[e] = "select" /\ delay[e]
    /\ delay' = [delay EXCEPT ![e] = FALSE]
    /\ epc' = [epc EXCEPT ![e] = "start"]
    /\ UNCHANGED <<envVars, watchVars, loopVars, kpc, path, proc, procVars>>

\* The killed process is reaped: start anew, or return.
Killed(e) ==
    /\ epc[e] \in {"modify", "remove"}
    /\ Reap(e)
    /\ proc' = [proc EXCEPT ![e] = None]
    /\ epc' = [epc EXCEPT ![e] = IF @ = "modify" THEN "start" ELSE "none"]
    /\ UNCHANGED <<envVars, watchVars, loopVars, kpc, path, delay, kill, ver>>

-------------------------------------------------------------------------------
(* process.                                                                  *)

\* decode found the process idle.
IdleTimeout(p) ==
    /\ pst[p] = "running" /\ ~kill[p]
    /\ Kill(p)
    /\ UNCHANGED <<envVars, watchVars, loopVars, kpc, entryVars, pst, ver>>

\* handleKill takes the request and kills the process.
HandleKill(p) ==
    /\ pst[p] = "running" /\ kill[p]
    /\ pst' = [pst EXCEPT ![p] = "dying"]
    /\ kill' = [kill EXCEPT ![p] = FALSE]
    /\ UNCHANGED <<envVars, watchVars, loopVars, kpc, entryVars, ver>>

\* The process ends, by itself or killed, and handleKill passes its status on.
Exit(p) ==
    /\ pst[p] \in {"running", "dying"}
    /\ pst' = [pst EXCEPT ![p] = "exited"]
    /\ UNCHANGED <<envVars, watchVars, loopVars, kpc, entryVars, kill, ver>>

-------------------------------------------------------------------------------
Loop == \/ \E f \in Paths : EventNoEntry(f) \/ EventEntry(f)
        \/ Quit \/ KilledEntry \/ Stop

FreeProcs == {p \in Procs : pst[p] = "none"}

Entry(e) == \/ FreeProcs # {} /\ StartProcess(e, CHOOSE p \in FreeProcs : TRUE)
            \/ ProcessExit(e) \/ Restart(e) \/ Killed(e)

Next ==
    \/ \E f \in Paths : EditFile(f)
    \/ Scan
    \/ Loop
    \/ Deliver
    \/ \E f \in Paths : KillEntry(f)
    \/ CallKill
    \/ \E e \in Entries : Entry(e)
    \/ \E p \in Procs : IdleTimeout(p) \/ HandleKill(p) \/ Exit(p)

Spec == Init /\ [][Next]_vars

(* Goroutines run until they block, timers fire, and a process that was sent *)
(* SIGKILL ends.  An entry chooses at random among the channels of its       *)
(* select that are ready, so it does not pass over one of them forever.      *)
Fairness ==
    /\ WF_vars(Scan)
    /\ WF_vars(Loop)
    /\ SF_vars(Deliver)
    /\ \A f \in Paths : SF_vars(KillEntry(f))
    /\ \A e \in Entries : WF_vars(Entry(e))
    /\ \A p \in Procs : WF_vars(HandleKill(p)) /\ WF_vars(pst[p] = "dying" /\ Exit(p))

FairSpec == Spec /\ Fairness

-------------------------------------------------------------------------------
(* Properties.                                                               *)

Alive(p) == pst[p] \in {"running", "dying"}

\* No entry is sent an event its mainloop does not expect, which would end the
\* program: what the pool holds agrees with what the watcher has reported,
\* however files change while events are under way.
NoUnexpectedEvent == lpc = "deliver" => event.kind # "create"

\* loop never sends to an entry that has returned or will not listen again,
\* where it would block or panic.
EntriesListen ==
    kpc \in {"idle", "asked"} =>
        \A f \in Pooled : path[byPath[f]] = f /\ epc[byPath[f]] \notin {"none", "remove"}

\* No process is left running without an entry that watches over it, through
\* crashes, restarts, modifications and idle timeouts.
NoOrphan ==
    \A p \in Procs : Alive(p) =>
        \E e \in Entries : epc[e] \in {"select", "modify", "remove"} /\ proc[e] = p

\* Once Kill has returned no process is started any more: neither a restart
\* delay nor a modification that was under way brings a plugin back.
KillEndsStarts ==
    [][kpc = "returned" => \A p \in Procs : pst'[p] = "running" => pst[p] = "running"]_vars

\* The pool runs what the directory holds, in its current version.
Settled ==
    /\ \A f \in Paths : file[f] = 0 <=> byPath[f] = None /\ f \notin rejected
    /\ \A p \in Procs : Alive(p) =>
           \E f \in Pooled : proc[byPath[f]] = p /\ ver[p] = file[f]

\* Once the directory stops changing, the pool catches up with it for good,
\* whatever changed while earlier events were delivered; only programs that
\* the limit kept out are missing.
CatchesUp == <>(kpc # "idle") \/ <>[]Settled

\* The documented Kill ("Kill terminates the process pool.  If returns after
\* the last running process is reaped").
KillReturns == kpc = "asked" ~> kpc = "returned"

\* The rest of that claim: when Kill returns, every process has been reaped.
KillReaps == kpc = "returned" => \A p \in Procs : pst[p] = "none"

\* The documented limit ("The pool has bounded process count, see MaxProc").
BoundedProcs == Cardinality({p \in Procs : Alive(p)}) <= maxProc

-------------------------------------------------------------------------------
(* The inductive invariant behind the safety properties.                     *)

Running == kpc \in {"idle", "asked"}

\* loop serves events until it has taken the request to quit.
Phases ==
    /\ Running <=> lpc \in {"select", "deliver"}
    /\ kpc = "returned" <=> lpc = "done"
    /\ lpc = "killwait" => killing # None

\* byPath holds the entries that may start processes, and no others while
\* the pool is running.
PoolInv ==
    /\ IsFiniteSet(Pooled)
    /\ \A f \in Pooled : path[byPath[f]] = f
    /\ \A e \in Entries : epc[e] \notin {"none", "remove"} => byPath[path[e]] = e
    /\ EntriesListen

\* What loop has been told about f.
Reported(f) == IF wpc = "send" /\ f \in told THEN have[f] ELSE last[f]

\* The pool holds only files that were reported and not yet reported removed.
ReportInv ==
    /\ lpc = "deliver" =>
          /\ event # None /\ event.target \in Pooled
          /\ event.kind # "create"
          /\ event.kind = "modify" => Reported(event.target) # 0
    /\ Running => \A f \in Pooled :
          Reported(f) # 0 \/ (lpc = "deliver" /\ event = [target |-> f, kind |-> "remove"])

\* mainloop has a process that it has not reaped.
Owns(e) == epc[e] \in {"modify", "remove"} \/ (epc[e] = "select" /\ ~delay[e])

\* RestartDelay is set only between processes.
DelayInv == \A e \in Entries : delay[e] => epc[e] = "select"

\* When Kill has returned no entry can start a process; those that were removed
\* before have left byPath and may still have a process to reap.
KillInv ==
    kpc = "returned" =>
        /\ \A e \in Entries : epc[e] \in {"none", "remove"}
        /\ \A f \in Pooled : epc[byPath[f]] = "none"

ProcInv ==
    /\ \A e \in Entries : Owns(e) => proc[e] \in Procs /\ pst[proc[e]] # "none"
    /\ \A e, d \in Entries : Owns(e) /\ Owns(d) /\ proc[e] = proc[d] => e = d
    /\ \A p \in Procs : pst[p] # "none" => \E e \in Entries : Owns(e) /\ proc[e] = p

IInv == TypeOK /\ Phases /\ PoolInv /\ ReportInv /\ DelayInv /\ ProcInv /\ KillInv
===============================================================================
