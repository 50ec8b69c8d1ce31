-------------------------- MODULE JournalOwnership --------------------------
(***************************************************************************)
(* Which panel may open, keep and erase which Event History database       *)
(* (createIndexedDbEventHistory and runStartupSweep in                     *)
(* src/core/event-history-indexeddb.ts, and src/core/indexeddb/            *)
(* authoritative-event-db.ts).                                             *)
(*                                                                         *)
(* Every panel is a page of its own.  They share the browser's Web Locks   *)
(* ("owner"), its databases ("stored") and localStorage ("lease").  A      *)
(* crash takes a page's locks and connections with it, but neither its     *)
(* databases nor its lease.  An action is a run of code between two        *)
(* awaits, or an answer of the browser.                                    *)
(***************************************************************************)
EXTENDS Naturals

CONSTANTS
  Panels,
  Names,        \* database names of the Workbench
  NameOf,       \* NameOf[p]: the database of panel p, from its session id
  NewerNames,   \* names whose databases, if any, have a newer schema
  NoPanel

ASSUME NamesAssumption ==
  /\ NameOf \in [Panels -> Names]
  /\ NewerNames \subseteq Names
  /\ NoPanel \notin Panels

VARIABLES
  stage,         \* how far each panel has come
  owner,         \* the panel that holds the ownership lock of a name
  lease,         \* the live lease of a name in localStorage
  stored,        \* names of the databases that exist
  connected,     \* panels whose connection to their database is open
  pendingDelete, \* deletions that timed out and may still come to pass
  listed,        \* what a panel's startup sweep still has to visit
  target         \* the database that it is visiting

ownershipVars == <<stage, owner, lease, stored, connected, pendingDelete, listed, target>>

Connected == {"listing", "sweeping", "locking", "deleting", "running", "closing"}
Owning == Connected \cup {"opening", "erasing"}
Live == Owning \cup {"requested"}
Ended == {"failed", "closed", "crashed"}

sweepVars == <<listed, target>>
-----------------------------------------------------------------------------
\* Databases and leases that earlier panels left behind.
OwnershipInit ==
  /\ stage = [p \in Panels |-> "idle"]
  /\ owner = [n \in Names |-> NoPanel]
  /\ stored \in SUBSET Names
  /\ lease \in [Names -> {"none", "fresh"}]
  /\ \A n \in Names : lease[n] = "fresh" => n \in stored
  /\ connected = {} /\ pendingDelete = {}
  /\ listed = [p \in Panels |-> {}]
  /\ target = NameOf
-----------------------------------------------------------------------------
(* Leases *)

\* localStorage may refuse to store it.
claimLivePanelLease(p) == lease' \in {lease, [lease EXCEPT ![NameOf[p]] = "fresh"]}

releaseLiveLease(p) == lease' = [lease EXCEPT ![NameOf[p]] = "none"]

Heartbeat(p) ==
  /\ stage[p] \in Live
  /\ lease[NameOf[p]] # "fresh"
  /\ lease' = [lease EXCEPT ![NameOf[p]] = "fresh"]
  /\ UNCHANGED <<stage, owner, stored, connected, pendingDelete, sweepVars>>

\* The heartbeat of a hidden or busy page may be late, too.
LeaseExpires(n) ==
  /\ lease[n] = "fresh"
  /\ lease' = [lease EXCEPT ![n] = "stale"]
  /\ UNCHANGED <<stage, owner, stored, connected, pendingDelete, sweepVars>>
-----------------------------------------------------------------------------
(* Ownership: an exclusive Web Lock per name, requested with ifAvailable. *)

\* Mutant: nobody asks who holds the lock.
Available_Always(n) == TRUE

Available(n) == owner[n] = NoPanel

\* Mutant: the lock of the database that was being swept is kept.
releaseLocks_Own(p) == owner' = [owner EXCEPT ![NameOf[p]] = NoPanel]

releaseLocks(p) == owner' = [n \in Names |-> IF owner[n] = p THEN NoPanel ELSE owner[n]]

\* Mutant: the connection stays open.
Fail_StaysConnected(p) ==
  /\ stage' = [stage EXCEPT ![p] = "failed"]
  /\ releaseLocks(p)
  /\ releaseLiveLease(p)
  /\ UNCHANGED <<connected, sweepVars>>

\* The startup ends in an error and the panel goes on in memory. A database
\* that has been opened stays behind.
Fail(p) ==
  /\ stage' = [stage EXCEPT ![p] = "failed"]
  /\ releaseLocks(p)
  /\ releaseLiveLease(p)
  /\ connected' = connected \ {p}
  /\ UNCHANGED sweepVars

createIndexedDbEventHistory(p) ==
  /\ stage[p] = "idle"
  /\ stage' = [stage EXCEPT ![p] = "requested"]
  /\ claimLivePanelLease(p)
  /\ UNCHANGED <<owner, stored, connected, pendingDelete, sweepVars>>

requestLock(p) ==
  /\ stage[p] = "requested"
  /\ IF Available(NameOf[p])
       THEN /\ owner' = [owner EXCEPT ![NameOf[p]] = p]
            /\ stage' = [stage EXCEPT ![p] = "opening"]
            /\ UNCHANGED <<lease, connected, sweepVars>>
       ELSE Fail(p)
  /\ UNCHANGED <<stored, pendingDelete>>

\* IndexedDB opens a database after the deletions requested before.
openAuthoritativeEventDatabase(p) ==
  /\ stage[p] = "opening"
  /\ NameOf[p] \notin pendingDelete \cup NewerNames
  /\ stage' = [stage EXCEPT ![p] = "listing"]
  /\ stored' = stored \cup {NameOf[p]}
  /\ connected' = connected \cup {p}
  /\ UNCHANGED <<owner, lease, pendingDelete, sweepVars>>

\* The open times out, the schema is newer or the journal does not load; the
\* database may have been created all the same.
OpenFails(p) ==
  /\ stage[p] = "opening"
  /\ stored' \in {stored, stored \cup {NameOf[p]}}
  /\ Fail(p)
  /\ UNCHANGED pendingDelete
-----------------------------------------------------------------------------
(* runStartupSweep *)

listDatabases(p) ==
  /\ stage[p] = "listing"
  /\ stage' = [stage EXCEPT ![p] = "sweeping"]
  /\ listed' = [listed EXCEPT ![p] = stored]
  /\ UNCHANGED <<owner, lease, stored, connected, pendingDelete, target>>

ListFails(p) ==
  /\ stage[p] = "listing"
  /\ Fail(p)
  /\ UNCHANGED <<stored, pendingDelete>>

\* Mutant: the physical schema version is not looked at.
IsNewer_Never(n) == FALSE

IsNewer(n) == n \in NewerNames

\* Mutant: a lease that has expired still counts.
HasFreshLease_Expired(n) == lease[n] # "none"

HasFreshLease(n) == lease[n] = "fresh"

\* Its own database and those with a fresh lease are passed over.
SkipLive(p, n) ==
  /\ stage[p] = "sweeping" /\ n \in listed[p] /\ ~IsNewer(n)
  /\ n = NameOf[p] \/ HasFreshLease(n)
  /\ listed' = [listed EXCEPT ![p] = @ \ {n}]
  /\ UNCHANGED <<stage, owner, lease, stored, connected, pendingDelete, target>>

\* A lease that is not fresh is removed, and the lock requested.
hasFreshLivePanelLease(p, n) ==
  /\ stage[p] = "sweeping" /\ n \in listed[p] /\ ~IsNewer(n)
  /\ n # NameOf[p] /\ ~HasFreshLease(n)
  /\ lease' = [lease EXCEPT ![n] = "none"]
  /\ stage' = [stage EXCEPT ![p] = "locking"]
  /\ target' = [target EXCEPT ![p] = n]
  /\ listed' = [listed EXCEPT ![p] = @ \ {n}]
  /\ UNCHANGED <<owner, stored, connected, pendingDelete>>

\* Mutant: the sweep waits for the lock of a database that is in use.
requestSweepLock_Waits(p) ==
  /\ stage[p] = "locking" /\ Available(target[p])
  /\ owner' = [owner EXCEPT ![target[p]] = p]
  /\ stage' = [stage EXCEPT ![p] = "deleting"]
  /\ UNCHANGED <<lease, stored, connected, pendingDelete, sweepVars>>

requestSweepLock(p) ==
  /\ stage[p] = "locking"
  /\ IF Available(target[p])
       THEN /\ owner' = [owner EXCEPT ![target[p]] = p]
            /\ stage' = [stage EXCEPT ![p] = "deleting"]
       ELSE /\ stage' = [stage EXCEPT ![p] = "sweeping"]
            /\ UNCHANGED owner
  /\ UNCHANGED <<lease, stored, connected, pendingDelete, sweepVars>>

\* A deletion makes whoever is connected close the connection (versionchange).
deleteAuthoritativeEventDatabase(n) ==
  /\ stored' = stored \ {n}
  /\ connected' = {q \in connected : NameOf[q] # n}

SweepDeletes(p) ==
  /\ stage[p] = "deleting"
  /\ deleteAuthoritativeEventDatabase(target[p])
  /\ owner' = [owner EXCEPT ![target[p]] = NoPanel]
  /\ stage' = [stage EXCEPT ![p] = "sweeping"]
  /\ UNCHANGED <<lease, pendingDelete, sweepVars>>

\* One deletion that fails fails the startup.
SweepFails(p) ==
  /\ stage[p] = "deleting"
  /\ pendingDelete' \in {pendingDelete, pendingDelete \cup {target[p]}}
  /\ Fail(p)
  /\ UNCHANGED stored

\* Newer schemas are kept, but the panel does not start beside them.
SweepEnds(p) ==
  /\ stage[p] = "sweeping" /\ \A n \in listed[p] : IsNewer(n)
  /\ IF listed[p] = {}
       THEN /\ stage' = [stage EXCEPT ![p] = "running"]
            /\ UNCHANGED <<owner, lease, connected, sweepVars>>
       ELSE Fail(p)
  /\ UNCHANGED <<stored, pendingDelete>>

LateDeletion(n) ==
  /\ n \in pendingDelete
  /\ deleteAuthoritativeEventDatabase(n)
  /\ pendingDelete' = pendingDelete \ {n}
  /\ UNCHANGED <<stage, owner, lease, sweepVars>>
-----------------------------------------------------------------------------
(* closeCurrent, and the end of the page *)

closePanel(p) ==
  /\ stage[p] = "running"
  /\ stage' = [stage EXCEPT ![p] = "closing"]
  /\ UNCHANGED <<owner, lease, stored, connected, pendingDelete, sweepVars>>

\* Mutant: the connection stays open.
Disconnect_StaysConnected(p) ==
  /\ stage[p] = "closing"
  /\ stage' = [stage EXCEPT ![p] = "erasing"]
  /\ UNCHANGED <<owner, lease, stored, connected, pendingDelete, sweepVars>>

Disconnect(p) ==
  /\ stage[p] = "closing"
  /\ stage' = [stage EXCEPT ![p] = "erasing"]
  /\ connected' = connected \ {p}
  /\ UNCHANGED <<owner, lease, stored, pendingDelete, sweepVars>>

\* history.close has ended, one way or the other.
closeCurrent(p) ==
  /\ stage' = [stage EXCEPT ![p] = "closed"]
  /\ releaseLocks(p)
  /\ releaseLiveLease(p)
  /\ UNCHANGED sweepVars

Erase(p) ==
  /\ stage[p] = "erasing"
  /\ deleteAuthoritativeEventDatabase(NameOf[p])
  /\ closeCurrent(p)
  /\ UNCHANGED pendingDelete

\* Erasure is declined before the connection is closed, or fails after it.
CloseFails(p) ==
  /\ stage[p] \in {"closing", "erasing"}
  /\ connected' = connected \ {p}
  /\ pendingDelete' \in IF stage[p] = "closing" THEN {pendingDelete}
                        ELSE {pendingDelete, pendingDelete \cup {NameOf[p]}}
  /\ closeCurrent(p)
  /\ UNCHANGED stored

DeletionsOf(p) ==
  {n \in Names : \/ stage[p] = "deleting" /\ n = target[p]
                 \/ stage[p] = "erasing" /\ n = NameOf[p]}

\* What the page had asked the browser to delete may yet be deleted.
Crash(p) ==
  /\ stage[p] \in Live
  /\ stage' = [stage EXCEPT ![p] = "crashed"]
  /\ releaseLocks(p)
  /\ connected' = connected \ {p}
  /\ pendingDelete' \in {pendingDelete, pendingDelete \cup DeletionsOf(p)}
  /\ UNCHANGED <<lease, stored, sweepVars>>
-----------------------------------------------------------------------------
Startup(p) ==
  \/ requestLock(p)
  \/ openAuthoritativeEventDatabase(p) \/ OpenFails(p)
  \/ listDatabases(p) \/ ListFails(p)
  \/ \E n \in Names : SkipLive(p, n) \/ hasFreshLivePanelLease(p, n)
  \/ requestSweepLock(p)
  \/ SweepDeletes(p) \/ SweepFails(p)
  \/ SweepEnds(p)

Closing(p) == Disconnect(p) \/ Erase(p) \/ CloseFails(p)

OwnershipNext ==
  \/ \E p \in Panels : \/ createIndexedDbEventHistory(p) \/ Startup(p)
                       \/ closePanel(p) \/ Closing(p)
                       \/ Heartbeat(p) \/ Crash(p)
  \/ \E n \in Names : LeaseExpires(n) \/ LateDeletion(n)

\* The browser answers every request or the code's timeout does.
OwnershipFairness ==
  \A p \in Panels : WF_ownershipVars(Startup(p)) /\ WF_ownershipVars(Closing(p))

OwnershipSpec == OwnershipInit /\ [][OwnershipNext]_ownershipVars
FairOwnershipSpec == OwnershipSpec /\ OwnershipFairness
-----------------------------------------------------------------------------
(* Properties *)

\* The shape of the state; a connection is open from the opening of the
\* database to its closing.
OwnershipTypeOK ==
  /\ stage \in [Panels -> {"idle"} \cup Live \cup Ended]
  /\ owner \in [Names -> Panels \cup {NoPanel}]
  /\ lease \in [Names -> {"none", "fresh", "stale"}]
  /\ stored \subseteq Names /\ connected \subseteq Panels /\ pendingDelete \subseteq Names
  /\ listed \in [Panels -> SUBSET Names] /\ target \in [Panels -> Names]
  /\ connected = {p \in Panels : stage[p] \in Connected}

\* While a panel records Evidence its database exists, is connected to it
\* alone, and no deletion of it is under way: no sweep, late deletion or panel
\* of the same session id takes it away, fresh lease or not.
RunningKeepsJournal ==
  \A p \in Panels :
    stage[p] = "running" =>
      /\ NameOf[p] \in stored \ pendingDelete
      /\ p \in connected
      /\ \A q \in connected : NameOf[q] = NameOf[p] => q = p

\* A panel that has failed, closed or crashed keeps no lock and no connection,
\* neither of its own database nor of one it was sweeping.
EndedHoldsNothing ==
  \A p \in Panels :
    stage[p] \in Ended => p \notin connected /\ \A n \in Names : owner[n] # p

\* A database is deleted when nobody is connected to it.
ErasesOnlyUnused ==
  [][\A n \in stored \ stored' : \A q \in connected : NameOf[q] # n]_ownershipVars

\* A database of a newer schema is never deleted, and no panel starts to
\* record beside it.
NewerSchemaKept ==
  [][/\ stored \cap NewerNames \subseteq stored'
     /\ stored \cap NewerNames # {} =>
          \A p \in Panels : stage'[p] = "running" => stage[p] = "running"]_ownershipVars

\* Every startup ends.
StartupEnds ==
  \A p \in Panels : stage[p] = "requested" ~> stage[p] \in Ended \cup {"running"}

\* What nobody uses any more: a database of an earlier session, or of panels
\* that have all ended.
Orphaned(n) ==
  /\ n \notin NewerNames /\ lease[n] # "fresh"
  /\ \A p \in Panels : NameOf[p] = n => stage[p] \in Ended

\* An orphaned database, a crashed panel's too once its lease is stale, is
\* erased by the first startup that sees it, unless a startup fails.
OrphansAreErased ==
  \A n \in Names :
    (Orphaned(n) /\ \E p \in Panels : stage[p] = "listing")
      ~> \/ n \notin stored
         \/ \E p \in Panels : NameOf[p] # n /\ stage[p] \in {"failed", "crashed"}

\* A startup comes to an end, and with it the orphaned databases it has seen,
\* but never one of a newer schema (runStartupSweep, createIndexedDbEventHistory).
StartupsSettle == StartupEnds /\ OrphansAreErased /\ NewerSchemaKept
=============================================================================
