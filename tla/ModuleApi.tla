-------------------------------- MODULE ModuleApi --------------------------------
(***************************************************************************)
(* What a module books through ModuleApi, and what the sender of its       *)
(* application offers of it to the monitor element collector.  The manager *)
(* of monitor elements knows the elements and their directories, the       *)
(* sender keeps a map of the elements it was told of: two records of the   *)
(* same thing, that no lock and no callback ties together.                 *)
(*                                                                         *)
(* All calls come from the thread of the module's application; the news of *)
(* the collector comes on DIM's, also between the steps of                 *)
(* sendMonitorElements.  The collector may be away, and may announce       *)
(* itself before the sender is linked to it.  A list that is sent over a   *)
(* link arrives at once: its way is MonitorElementFlow's.                  *)
(*                                                                         *)
(* External: MonitorElementManager of the core library.  Directories are   *)
(* flat, an element has one name in one directory, rmdir takes the         *)
(* elements in it along, and leaves a current directory that is removed.   *)
(***************************************************************************)

CONSTANTS
  Element,      \* elements a module may book: a path and a name
  Dir,          \* directories below the root
  Root,         \* the root directory
  DirectoryOf,  \* the directory of each element
  Rootless,     \* elements whose path comes without a leading '/'
  Kind,         \* kinds of histograms and of scalars
  Histogram,    \*   those of histograms
  None          \* stands for an element that is not there

ASSUME DirectoryAssumption ==
  Root \notin Dir /\ DirectoryOf \in [Element -> Dir \cup {Root}] /\ Rootless \subseteq Element

ASSUME KindAssumption == Histogram \subseteq Kind /\ None \notin Kind

VARIABLES
  dirs,         \* directories that are there
  cwd,          \* the current one
  booked,       \* what the manager has: element -> kind
  availableMe,  \* the sender's m_availableMeMap: element -> kind
  sendList,     \* its m_sendAvailableMeList
  sending,      \* it is between sending the list and clearing the flag
  told,         \* the list that the collector has of the module
  link,         \* DIM connection of the sender to a collector that is up
  greeted,      \* history: over this link the sender heard RUNNING, outside sending
  orphans       \* history: elements that went away without the sender being told

managerVars == <<dirs, cwd, booked>>
collectorVars == <<told, link, greeted>>
senderVars == <<availableMe, sendList, sending, collectorVars>>
vars == <<managerVars, senderVars, orphans>>

Nothing == [e \in Element |-> None]

Init ==
  /\ dirs = {} /\ cwd = Root /\ booked = Nothing
  /\ availableMe = Nothing /\ sendList = TRUE /\ sending = FALSE
  /\ told = Nothing /\ link = FALSE /\ greeted = FALSE
  /\ orphans = {}

-----------------------------------------------------------------------------
(* Directories. *)

Mkdir(d) ==
  /\ d \notin dirs
  /\ dirs' = dirs \cup {d}
  /\ UNCHANGED <<cwd, booked, senderVars, orphans>>

\* cd: without an argument to the root.
Cd(d) ==
  /\ d \in dirs \cup {Root} /\ d # cwd
  /\ cwd' = d
  /\ UNCHANGED <<dirs, booked, senderVars, orphans>>

GoUp ==
  /\ cwd # Root
  /\ cwd' = Root
  /\ UNCHANGED <<dirs, booked, senderVars, orphans>>

\* The sender is not told of the elements that go with the directory.
Rmdir(d) ==
  LET gone == {e \in Element : DirectoryOf[e] = d /\ booked[e] # None}
  IN /\ d \in dirs
     /\ dirs' = dirs \ {d}
     /\ cwd' = IF cwd = d THEN Root ELSE cwd
     /\ booked' = [e \in Element |-> IF e \in gone THEN None ELSE booked[e]]
     /\ orphans' = orphans \cup gone
     /\ UNCHANGED senderVars

-----------------------------------------------------------------------------
(* The sender: addAvailableMonitorElement, removeAvailableMonitorElement. *)

\* Mutant: the flag stays down.
AddAvailableMonitorElement_Silent(e, kind) ==
  /\ availableMe' = [availableMe EXCEPT ![e] = kind]
  /\ UNCHANGED sendList

\* An element that is there already keeps its info, and the list is not due.
AddAvailableMonitorElement(e, kind) ==
  IF availableMe[e] # None THEN UNCHANGED <<availableMe, sendList>>
  ELSE availableMe' = [availableMe EXCEPT ![e] = kind] /\ sendList' = TRUE

\* The map is searched for the name as it is given.
RemoveAvailableMonitorElement(e) ==
  IF availableMe[e] = None THEN UNCHANGED <<availableMe, sendList>>
  ELSE availableMe' = [availableMe EXCEPT ![e] = None] /\ sendList' = TRUE

-----------------------------------------------------------------------------
(* Booking and deletion. *)

\* The manager refuses an element that is there: the call ends with its status code.
Book(e, kind) ==
  /\ booked[e] = None
  /\ booked' = [booked EXCEPT ![e] = kind]
  /\ AddAvailableMonitorElement(e, kind)
  /\ UNCHANGED <<dirs, cwd, sending, collectorVars, orphans>>

There(e) == DirectoryOf[e] \in dirs \cup {Root}

\* The calls without a directory book in ".".
BookHistogramHere(e) == DirectoryOf[e] = cwd /\ \E kind \in Histogram : Book(e, kind)

BookObjectHere(e) == DirectoryOf[e] = cwd /\ \E kind \in Kind \ Histogram : Book(e, kind)

BookHistogramIn(e) == There(e) /\ \E kind \in Histogram : Book(e, kind)

BookObjectIn(e) == There(e) /\ \E kind \in Kind \ Histogram : Book(e, kind)

\* From XML, which gives the kind and the directory.
BookMonitorElement(e) == There(e) /\ \E kind \in Kind : Book(e, kind)

\* Mutant: the sender is not told.
DeleteMonitorElement_Untold(e) ==
  /\ booked[e] # None
  /\ booked' = [booked EXCEPT ![e] = None]
  /\ UNCHANGED <<dirs, cwd, senderVars, orphans>>

\* The sender is asked for path and name as they are, where addAvailableMonitorElement
\* put a '/' in front.
DeleteMonitorElement(e) ==
  /\ booked[e] # None
  /\ booked' = [booked EXCEPT ![e] = None]
  /\ IF e \in Rootless THEN orphans' = orphans \cup {e} /\ UNCHANGED <<availableMe, sendList>>
     ELSE orphans' = orphans \ {e} /\ RemoveAvailableMonitorElement(e)
  /\ UNCHANGED <<dirs, cwd, sending, collectorVars>>

-----------------------------------------------------------------------------
(* The end of a cycle: sendMonitorElements, as far as the list. *)

\* Mutant: the list is not sent, and the flag cleared as if it were.
SendAvailableMonitorElementList_Forgets ==
  /\ sendList /\ ~sending
  /\ sending' = TRUE
  /\ UNCHANGED <<managerVars, availableMe, sendList, collectorVars, orphans>>

\* An empty list is not sent, and a command without a connection is lost.
SendAvailableMonitorElementList ==
  /\ sendList /\ ~sending
  /\ sending' = TRUE
  /\ told' = IF link /\ availableMe # Nothing THEN availableMe ELSE told
  /\ UNCHANGED <<managerVars, availableMe, sendList, link, greeted, orphans>>

\* The flag goes down, whatever became of the list and whoever set it again meanwhile.
ClearSendList ==
  /\ sending
  /\ sending' = FALSE /\ sendList' = FALSE
  /\ UNCHANGED <<managerVars, availableMe, collectorVars, orphans>>

-----------------------------------------------------------------------------
(* The collector, on DIM's thread. *)

\* The infos of connectToService find a collector, perhaps one that is RUNNING
\* already: a DimUpdatedInfo gets no first value.
Link ==
  /\ ~link
  /\ link' = TRUE
  /\ UNCHANGED <<managerVars, availableMe, sendList, sending, told, greeted, orphans>>

\* infoHandler gets RUNNING.
CollectorRuns ==
  /\ link
  /\ sendList' = TRUE
  /\ greeted' = (greeted \/ ~sending)
  /\ UNCHANGED <<managerVars, availableMe, sending, told, link, orphans>>

\* The collector process goes away with what it knew; infoHandler gets STOPPED, which
\* leaves the flag alone.
CollectorGoes ==
  /\ link
  /\ link' = FALSE /\ greeted' = FALSE /\ told' = Nothing
  /\ UNCHANGED <<managerVars, availableMe, sendList, sending, orphans>>

-----------------------------------------------------------------------------
(* Specification. *)

DirectoryCall ==
  \/ GoUp \/ Cd(Root)
  \/ \E d \in Dir : Mkdir(d) \/ Cd(d) \/ Rmdir(d)

BookingCall(e) ==
  \/ BookHistogramHere(e) \/ BookObjectHere(e) \/ BookHistogramIn(e) \/ BookObjectIn(e)
  \/ BookMonitorElement(e)

ModuleCall ==
  /\ ~sending
  /\ \/ DirectoryCall
     \/ \E e \in Element : BookingCall(e) \/ DeleteMonitorElement(e)

SendMonitorElements == SendAvailableMonitorElementList \/ ClearSendList

Collector == Link \/ CollectorRuns \/ CollectorGoes

Next == ModuleCall \/ SendMonitorElements \/ Collector

Spec == Init /\ [][Next]_vars

\* The module's application comes to the end of a cycle again and again; no collector
\* has to come, and none to announce itself.
FairSpec == Spec /\ WF_vars(SendMonitorElements)

-----------------------------------------------------------------------------
(* Properties. *)

TypeOK ==
  /\ dirs \subseteq Dir /\ cwd \in dirs \cup {Root}
  /\ booked \in [Element -> Kind \cup {None}]
  /\ \A e \in Element : booked[e] # None => There(e)
  /\ availableMe \in [Element -> Kind \cup {None}] /\ sendList \in BOOLEAN
  /\ sending \in BOOLEAN /\ link \in BOOLEAN /\ greeted \in BOOLEAN
  /\ told \in [Element -> Kind \cup {None}]
  /\ orphans \subseteq Element

\* Whatever is booked is offered, in whatever order elements and directories came,
\* went and came again.
BookedIsOffered == \A e \in Element : booked[e] # None => availableMe[e] # None

\* The offer is out of date only about elements that went with their directory, or
\* whose path has no '/' in front: those stay on offer, and keep their kind when they
\* are booked again as another one.
OnlyOrphansAreStale ==
  \A e \in Element \ orphans : availableMe[e] = booked[e]

\* What is booked is offered, and what is offered and not booked has an excuse.
OfferFollowsBooking == BookedIsOffered /\ OnlyOrphansAreStale

\* A collector that announced itself to the sender, at any moment but the one in which
\* the flag is cleared, has the list whenever none is due: unless there is nothing in it,
\* since an empty list is never sent.  So no call of the module, in whatever order the
\* collector came, announced itself and went, changes the offer behind its back.
FlagKeepsListTold == greeted /\ ~sendList => told = availableMe \/ availableMe = Nothing

\* What is booked, before or after, gets to a collector that announced itself, if it
\* does not go and the module does not delete it first.
BookedGetsTold ==
  \A e \in Element :
    (booked[e] # None /\ greeted) ~> (told[e] # None \/ booked[e] = None \/ ~greeted)

=============================================================================
