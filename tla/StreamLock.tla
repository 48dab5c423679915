------------------------------ MODULE StreamLock ------------------------------
(***************************************************************************)
(* Who may work on a stream: the advisory locks of                         *)
(* internal/checkpoint/mysql.go, the processes that claim all their        *)
(* streams before they run (internal/supervisor, prepare and release) and  *)
(* the operator's resnapshot, which claims one stream for one change of    *)
(* its checkpoint row.                                                     *)
(*                                                                         *)
(* MySQL ties a lock to the connection it was taken on, and gives it back  *)
(* when that connection ends, whoever ended it.  That of a client that is  *)
(* gone ends when the server reaps its session.                            *)
(***************************************************************************)
EXTENDS Naturals, FiniteSets

CONSTANTS Procs,           \* the processes
          Wants,           \* the streams of each process
          Streams,         \* their names, in an order
          Conns,           \* connections of a process to the checkpoint database
          Free,            \* the holder of a lock nobody has
          Operator,        \* the holder of a lock resnapshot has
          Dead             \* the holder of a lock whose client is gone

ASSUME LockAssumption ==
  /\ Streams \subseteq Nat /\ Conns \in Nat
  /\ Wants \in [Procs -> SUBSET Streams] /\ \A p \in Procs : Wants[p] # {}
  /\ {Free, Operator, Dead} \cap Procs = {}
  /\ Free # Operator /\ Free # Dead /\ Operator # Dead

VARIABLES
  holder,    \* the server's advisory locks: stream -> holder
  pc,        \* a process: "off", "locking", "locked" or "running"
  claims,    \* the streams whose StreamLock a process has in its runtimes
  saving,    \* the row a process has loaded and not yet saved, per stream
  row,       \* checkpoint row: SnapshotDone of a stream, "done" or "cleared"
  operator,  \* resnapshot: "off", or "loaded" once it has lock and row
  target,    \* the stream it is about
  asked,     \* streams whose rescan was confirmed and not yet begun
  died       \* "yes" once the server has closed the connection of a lock

vars == <<holder, pc, claims, saving, row, operator, target, asked, died>>

Nothing == "-"

Init ==
  /\ holder = [s \in Streams |-> Free]
  /\ pc = [p \in Procs |-> "off"] /\ claims = [p \in Procs |-> {}]
  /\ saving = [p \in Procs |-> [s \in Streams |-> Nothing]]
  /\ row = [s \in Streams |-> "done"]
  /\ operator = "off" /\ target \in Streams /\ asked = {} /\ died = "no"

-----------------------------------------------------------------------------
(* A process                                                                 *)

Start(p) ==
  /\ pc[p] = "off"
  /\ pc' = [pc EXCEPT ![p] = "locking"]
  /\ UNCHANGED <<holder, claims, saving, row, operator, target, asked, died>>

\* The streams a process has yet to claim.
Left(p) == Wants[p] \ claims[p]

\* A mutant: one process goes through its streams in another order, as the
\* order of a map may be.
WantedInMapOrder(p) ==
  IF p = CHOOSE q \in Procs : \A o \in Procs : Cardinality(Wants[o]) <= Cardinality(Wants[q])
    THEN CHOOSE s \in Left(p) : \A t \in Left(p) : s >= t
    ELSE CHOOSE s \in Left(p) : \A t \in Left(p) : s <= t

\* prepare claims the streams in the order of their names.
Wanted(p) == CHOOSE s \in Left(p) : \A t \in Left(p) : s <= t

\* Each lock keeps a connection of the pool; every other use of the checkpoint
\* database waits for one that is left.
ConnectionLeft(p) == Cardinality(claims[p]) < Conns

\* A mutant: a lock that could not be had is taken for granted.
Grants(s) == TRUE

\* GET_LOCK grants a lock nobody holds.
Granted(s) == holder[s] = Free

\* Lock and the rest of buildStream: the next stream of the process is claimed.
Lock(p) ==
  /\ pc[p] = "locking" /\ ConnectionLeft(p) /\ Granted(Wanted(p))
  /\ holder' = [holder EXCEPT ![Wanted(p)] = p]
  /\ claims' = [claims EXCEPT ![p] = @ \cup {Wanted(p)}]
  /\ pc' = IF Left(p) = {Wanted(p)} THEN [pc EXCEPT ![p] = "locked"] ELSE pc
  /\ UNCHANGED <<saving, row, operator, target, asked, died>>

\* backfill loads the rows and finds out which tables to scan.
Backfill(p) ==
  /\ pc[p] = "locked" /\ ConnectionLeft(p)
  /\ pc' = [pc EXCEPT ![p] = "running"]
  /\ asked' = asked \ claims[p]
  /\ UNCHANGED <<holder, claims, saving, row, operator, target, died>>

\* The locks when a process has ended: release gives back those in its list
\* that it still has.  One that is not in the list stays until the server reaps
\* its connection.
Released(p) ==
  [s \in Streams |-> IF holder[s] # p THEN holder[s]
                     ELSE IF s \in claims[p] THEN Free ELSE Dead]

\* A mutant: the locks given back stay in the list of those held.
GoneWithClaims(p) ==
  /\ pc' = [pc EXCEPT ![p] = "off"]
  /\ saving' = [saving EXCEPT ![p] = [s \in Streams |-> Nothing]]
  /\ UNCHANGED <<claims, row, operator, target, asked>>

\* The process is gone, and remembers nothing.
Gone(p) ==
  /\ pc' = [pc EXCEPT ![p] = "off"]
  /\ claims' = [claims EXCEPT ![p] = {}]
  /\ saving' = [saving EXCEPT ![p] = [s \in Streams |-> Nothing]]
  /\ UNCHANGED <<row, operator, target, asked>>

\* Lock gives up after LockTimeout: prepare fails and release runs.
LockTimesOut(p) ==
  /\ pc[p] = "locking" /\ ConnectionLeft(p) /\ ~Granted(Wanted(p))
  /\ holder' = Released(p) /\ Gone(p) /\ UNCHANGED died

\* GET_LOCK is granted and its answer lost: the connection is closed, and the
\* lock, which is in no list, is left to the server.
LockAnswerLost(p) ==
  /\ pc[p] = "locking" /\ ConnectionLeft(p) /\ Granted(Wanted(p))
  /\ holder' = [Released(p) EXCEPT ![Wanted(p)] = Dead]
  /\ Gone(p) /\ UNCHANGED died

\* Run returns: it was told to, or a step of buildStream, of the scan or of the
\* stream failed.
Stop(p) ==
  /\ pc[p] # "off"
  /\ holder' = Released(p) /\ Gone(p) /\ UNCHANGED died

\* The process is killed, and gives nothing back.
Kill(p) ==
  /\ pc[p] # "off"
  /\ holder' = [s \in Streams |-> IF holder[s] = p THEN Dead ELSE holder[s]]
  /\ Gone(p) /\ UNCHANGED died

\* The server reaps the session of a client that is gone.
Reap(s) ==
  /\ holder[s] = Dead
  /\ holder' = [holder EXCEPT ![s] = Free]
  /\ UNCHANGED <<pc, claims, saving, row, operator, target, asked, died>>

\* advance or finishScan loads the row of a stream ...
LoadRow(p, s) ==
  /\ pc[p] = "running" /\ s \in claims[p] /\ saving[p][s] = Nothing
  /\ saving' = [saving EXCEPT ![p][s] = row[s]]
  /\ UNCHANGED <<holder, pc, claims, row, operator, target, asked, died>>

\* ... and saves it: as it was, or with the scan done.
SaveRow(p, s) ==
  /\ pc[p] = "running" /\ saving[p][s] # Nothing
  /\ row' \in {[row EXCEPT ![s] = saving[p][s]], [row EXCEPT ![s] = "done"]}
  /\ saving' = [saving EXCEPT ![p][s] = Nothing]
  /\ UNCHANGED <<holder, pc, claims, operator, target, asked, died>>

\* The server closes the idle connection of a lock; the process, which never
\* asks Held, goes on.
ConnectionDies(s) ==
  /\ holder[s] \notin {Free, Dead}
  /\ holder' = [holder EXCEPT ![s] = Free] /\ died' = "yes"
  /\ UNCHANGED <<pc, claims, saving, row, operator, target, asked>>

-----------------------------------------------------------------------------
(* resnapshot                                                                *)

Ask(s) ==
  /\ operator = "off" /\ Granted(s)
  /\ operator' = "loaded" /\ target' = s
  /\ holder' = [holder EXCEPT ![s] = Operator]
  /\ UNCHANGED <<pc, claims, saving, row, asked, died>>

ClearAndRelease ==
  /\ operator = "loaded"
  /\ row' = [row EXCEPT ![target] = "cleared"]
  /\ asked' = asked \cup {target}
  /\ holder' = [s \in Streams |-> IF holder[s] = Operator THEN Free ELSE holder[s]]
  /\ operator' = "off"
  /\ UNCHANGED <<pc, claims, saving, target, died>>

\* resnapshot fails or is killed; its save may have landed.
AskFails ==
  /\ operator = "loaded"
  /\ UNCHANGED row \/ row' = [row EXCEPT ![target] = "cleared"]
  /\ \E h \in {Free, Dead} :
       holder' = [s \in Streams |-> IF holder[s] = Operator THEN h ELSE holder[s]]
  /\ operator' = "off"
  /\ UNCHANGED <<pc, claims, saving, target, asked, died>>

-----------------------------------------------------------------------------
\* Prepare, one attempt after the other.
Advance(p) == Lock(p) \/ LockTimesOut(p) \/ Backfill(p)

\* What ends a process, takes a lock from it or takes one before it.
Ends == \E p \in Procs : Stop(p) \/ Kill(p) \/ LockAnswerLost(p)
Intrudes == \E s \in Streams : ConnectionDies(s) \/ Ask(s)

Next ==
  \/ \E p \in Procs : Start(p) \/ Advance(p)
  \/ \E p \in Procs, s \in Streams : LoadRow(p, s) \/ SaveRow(p, s)
  \/ \E s \in Streams : Reap(s)
  \/ ClearAndRelease \/ AskFails \/ Ends \/ Intrudes

Spec == Init /\ [][Next]_vars

\* A process that ended is started again and goes on unless it waits for a
\* connection; the server reaps dead sessions, and resnapshot ends.
FairSpec ==
  /\ Spec
  /\ \A p \in Procs : WF_vars(Start(p)) /\ WF_vars(Advance(p))
  /\ \A s \in Streams : WF_vars(Reap(s))
  /\ WF_vars(ClearAndRelease)

-----------------------------------------------------------------------------
TypeOK ==
  /\ holder \in [Streams -> Procs \cup {Free, Operator, Dead}]
  /\ pc \in [Procs -> {"off", "locking", "locked", "running"}]
  /\ claims \in [Procs -> SUBSET Streams]
  /\ \A p \in Procs : pc[p] = "off" => claims[p] = {}
  /\ saving \in [Procs -> [Streams -> {"done", "cleared", Nothing}]]
  /\ row \in [Streams -> {"done", "cleared"}]
  /\ operator \in {"off", "loaded"} /\ target \in Streams /\ asked \subseteq Streams
  /\ died \in {"no", "yes"}

\* Two processes work on one stream: both write to the destination and save
\* the same row.
Fight ==
  \E p, q \in Procs :
    p # q /\ pc[p] = "running" /\ pc[q] = "running" /\ claims[p] \cap claims[q] # {}

\* As long as the connections of the locks live, no two processes work on one
\* stream, however their starts, failures and ends interleave.
OneOwner == died = "no" => ~Fight

\* What the README says, connections or not.
NeverFight == ~Fight

\* A rescan that resnapshot has confirmed is not undone by a save of a process
\* that had loaded the row before, as long as the connections of the locks
\* live: the next start scans the table.
RescanKept == died = "no" => \A s \in asked : row[s] = "cleared"

\* One of these, and not merely a process that gave up waiting for a lock.
Disturbance == (Ends \/ Intrudes) /\ ~\E p \in Procs : LockTimesOut(p)

\* However processes with streams in common claim them, one by one and with a
\* timeout, wait for each other and give back what they have, and whatever locks
\* those that were killed left behind: once nothing disturbs them some process
\* has all its streams and keeps them.
SomeoneRuns == []<><<Disturbance>>_vars \/ <>[](\E p \in Procs : pc[p] = "running")
==============================================================================
