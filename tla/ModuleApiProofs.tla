----------------------------- MODULE ModuleApiProofs -----------------------------
(***************************************************************************)
(* Proofs about ModuleApi: for any elements, directories and kinds, the    *)
(* three records of what a module booked differ only where ModuleApi.tla   *)
(* says they may.  The invariants are inductive together: a booking finds  *)
(* a stale offer only of an element that was orphaned, every change of the *)
(* offer makes the list due, and RUNNING makes it due again before it can  *)
(* be cleared, unless it comes while the list is being sent.               *)
(***************************************************************************)
EXTENDS ModuleApi, TLAPS

\* A collector that announced itself has the list as soon as it is sent, before the
\* flag is cleared.
SentListIsTold ==
  /\ greeted => link
  /\ greeted /\ (sending \/ ~sendList) => told = availableMe \/ availableMe = Nothing

\* The inductive invariant.
OfferInv == TypeOK /\ BookedIsOffered /\ OnlyOrphansAreStale /\ SentListIsTold

LEMMA OfferInit == Init => OfferInv
BY DirectoryAssumption, KindAssumption
DEF Init, Nothing, OfferInv, TypeOK, There, BookedIsOffered, OnlyOrphansAreStale,
    SentListIsTold

\* Bookings: the kind is offered, or an old offer of an orphan stays.
LEMMA BookKeeps ==
  ASSUME OfferInv, ~sending, NEW e \in Element, NEW kind \in Kind, There(e), Book(e, kind)
  PROVE  OfferInv'
<1>1. /\ booked \in [Element -> Kind \cup {None}]
      /\ availableMe \in [Element -> Kind \cup {None}]
      /\ kind # None
  BY KindAssumption DEF OfferInv, TypeOK
<1>2. booked' \in [Element -> Kind \cup {None}] /\ \A f \in Element :
        booked'[f] = IF f = e THEN kind ELSE booked[f]
  BY <1>1 DEF Book
<1>3. /\ availableMe' \in [Element -> Kind \cup {None}] /\ sendList' \in BOOLEAN
      /\ \A f \in Element :
           availableMe'[f] = IF f = e /\ availableMe[e] = None THEN kind ELSE availableMe[f]
  BY <1>1 DEF Book, AddAvailableMonitorElement, OfferInv, TypeOK
<1>4. TypeOK'
  BY <1>2, <1>3 DEF OfferInv, TypeOK, Book, There, collectorVars
<1>5. BookedIsOffered'
  BY <1>1, <1>2, <1>3 DEF OfferInv, BookedIsOffered
<1>6. OnlyOrphansAreStale'
  BY <1>1, <1>2, <1>3 DEF OfferInv, OnlyOrphansAreStale, Book
<1>7. SentListIsTold'
  BY DEF Book, AddAvailableMonitorElement, OfferInv, SentListIsTold, collectorVars, Nothing
<1> QED
  BY <1>4, <1>5, <1>6, <1>7 DEF OfferInv

LEMMA BookingCallKeeps ==
  ASSUME OfferInv, ~sending, NEW e \in Element, BookingCall(e)
  PROVE  OfferInv'
<1>1. DirectoryOf[e] = cwd => There(e)
  BY DEF OfferInv, TypeOK, There
<1>2. PICK kind \in Kind : There(e) /\ Book(e, kind)
  BY <1>1, KindAssumption
  DEF BookingCall, BookHistogramHere, BookObjectHere, BookHistogramIn, BookObjectIn,
      BookMonitorElement
<1> QED
  BY <1>2, BookKeeps

\* Deletion: the offer goes with the element, or the element becomes an orphan.
LEMMA DeleteKeeps ==
  ASSUME OfferInv, ~sending, NEW e \in Element, DeleteMonitorElement(e)
  PROVE  OfferInv'
<1>1. /\ booked \in [Element -> Kind \cup {None}]
      /\ availableMe \in [Element -> Kind \cup {None}]
  BY DEF OfferInv, TypeOK
<1>2. booked' \in [Element -> Kind \cup {None}] /\ \A f \in Element :
        booked'[f] = IF f = e THEN None ELSE booked[f]
  BY <1>1 DEF DeleteMonitorElement
<1>3. CASE e \in Rootless
  BY <1>1, <1>2, <1>3
  DEF DeleteMonitorElement, OfferInv, TypeOK, There, BookedIsOffered, OnlyOrphansAreStale,
      SentListIsTold, collectorVars, Nothing
<1>4. CASE e \notin Rootless
  <2>1. /\ availableMe' \in [Element -> Kind \cup {None}] /\ sendList' \in BOOLEAN
        /\ \A f \in Element : availableMe'[f] = IF f = e THEN None ELSE availableMe[f]
    BY <1>1, <1>4 DEF DeleteMonitorElement, RemoveAvailableMonitorElement, OfferInv, TypeOK
  <2>2. TypeOK'
    BY <1>2, <2>1, <1>4 DEF DeleteMonitorElement, OfferInv, TypeOK, There, collectorVars
  <2>3. BookedIsOffered' /\ OnlyOrphansAreStale'
    BY <1>1, <1>2, <1>4, <2>1
    DEF DeleteMonitorElement, OfferInv, BookedIsOffered, OnlyOrphansAreStale
  <2>4. SentListIsTold'
    BY <1>4
    DEF DeleteMonitorElement, RemoveAvailableMonitorElement, OfferInv, SentListIsTold,
        collectorVars, Nothing
  <2> QED
    BY <2>2, <2>3, <2>4 DEF OfferInv
<1> QED
  BY <1>3, <1>4

\* A directory that is removed makes orphans of all its elements.
LEMMA RmdirKeeps ==
  ASSUME OfferInv, NEW d \in Dir, Rmdir(d)
  PROVE  OfferInv'
<1>1. /\ booked \in [Element -> Kind \cup {None}]
      /\ \A e \in Element :
           booked'[e] = IF DirectoryOf[e] = d /\ booked[e] # None THEN None ELSE booked[e]
      /\ booked' \in [Element -> Kind \cup {None}]
  BY DEF Rmdir, OfferInv, TypeOK
<1>2. TypeOK'
  <2>1. \A e \in Element : booked'[e] # None => There(e)'
    BY <1>1 DEF Rmdir, OfferInv, TypeOK, There
  <2> QED
    BY <1>1, <2>1 DEF Rmdir, senderVars, collectorVars, OfferInv, TypeOK
<1>3. BookedIsOffered'
  BY <1>1 DEF Rmdir, senderVars, collectorVars, OfferInv, BookedIsOffered
<1>4. OnlyOrphansAreStale'
  BY <1>1 DEF Rmdir, senderVars, collectorVars, OfferInv, OnlyOrphansAreStale
<1>5. SentListIsTold'
  BY DEF Rmdir, senderVars, collectorVars, OfferInv, SentListIsTold, Nothing
<1> QED
  BY <1>2, <1>3, <1>4, <1>5 DEF OfferInv

\* The other calls about directories touch no element.
LEMMA DirectoryCallKeeps ==
  ASSUME OfferInv, DirectoryCall
  PROVE  OfferInv'
<1>1. ASSUME NEW d \in Dir, Mkdir(d) PROVE OfferInv'
  BY <1>1
  DEF Mkdir, senderVars, collectorVars, OfferInv, TypeOK, There, BookedIsOffered, OnlyOrphansAreStale,
      SentListIsTold, Nothing
<1>2. ASSUME NEW d \in Dir \cup {Root}, Cd(d) PROVE OfferInv'
  BY <1>2
  DEF Cd, senderVars, collectorVars, OfferInv, TypeOK, There, BookedIsOffered, OnlyOrphansAreStale,
      SentListIsTold, Nothing
<1>3. ASSUME GoUp PROVE OfferInv'
  BY <1>3
  DEF GoUp, senderVars, collectorVars, OfferInv, TypeOK, There, BookedIsOffered, OnlyOrphansAreStale,
      SentListIsTold, Nothing
<1> QED
  BY <1>1, <1>2, <1>3, RmdirKeeps DEF DirectoryCall

\* The sender's own steps and those of the collector leave what is booked and offered.
LEMMA ListKeeps ==
  ASSUME OfferInv, SendMonitorElements \/ Collector \/ UNCHANGED vars
  PROVE  OfferInv'
<1>1. UNCHANGED <<managerVars, availableMe, orphans>>
  BY DEF SendMonitorElements, SendAvailableMonitorElementList, ClearSendList, Collector,
         Link, CollectorRuns, CollectorGoes, vars, senderVars
<1>2. BookedIsOffered' /\ OnlyOrphansAreStale'
  BY <1>1 DEF managerVars, OfferInv, BookedIsOffered, OnlyOrphansAreStale
<1>3. TypeOK'
  <2>1. sendList' \in BOOLEAN /\ sending' \in BOOLEAN /\ link' \in BOOLEAN
    BY DEF SendMonitorElements, SendAvailableMonitorElementList, ClearSendList, Collector,
           Link, CollectorRuns, CollectorGoes, vars, senderVars, collectorVars, OfferInv, TypeOK
  <2>2. greeted' \in BOOLEAN
    <3>1. (greeted \/ ~sending) \in BOOLEAN
      OBVIOUS
    <3> QED
      BY <3>1
      DEF SendMonitorElements, SendAvailableMonitorElementList, ClearSendList, Collector,
          Link, CollectorRuns, CollectorGoes, vars, senderVars, collectorVars, OfferInv, TypeOK
  <2>3. told' \in [Element -> Kind \cup {None}]
    BY DEF SendMonitorElements, SendAvailableMonitorElementList, ClearSendList, Collector,
           Link, CollectorRuns, CollectorGoes, vars, senderVars, collectorVars, OfferInv,
           TypeOK, Nothing
  <2> QED
    BY <1>1, <2>1, <2>2, <2>3 DEF managerVars, OfferInv, TypeOK, There
<1>4. SentListIsTold'
  <2>1. CASE SendAvailableMonitorElementList
    BY <2>1 DEF SendAvailableMonitorElementList, OfferInv, SentListIsTold, Nothing
  <2>2. CASE ClearSendList
    BY <2>2 DEF ClearSendList, collectorVars, OfferInv, SentListIsTold, Nothing
  <2>3. CASE Link
    BY <2>3 DEF Link, OfferInv, SentListIsTold, Nothing
  <2>4. CASE CollectorRuns /\ sending
    <3>1. UNCHANGED <<told, link, sending, availableMe>> /\ (greeted' => greeted)
      BY <2>4 DEF CollectorRuns
    <3> QED
      BY <2>4, <3>1 DEF OfferInv, SentListIsTold, Nothing
  <2>5. CASE CollectorRuns /\ ~sending
    BY <2>5 DEF CollectorRuns, OfferInv, SentListIsTold
  <2>6. CASE CollectorGoes
    BY <2>6 DEF CollectorGoes, SentListIsTold
  <2>7. CASE UNCHANGED vars
    BY <2>7 DEF vars, senderVars, collectorVars, OfferInv, SentListIsTold, Nothing
  <2> QED
    BY <2>1, <2>2, <2>3, <2>4, <2>5, <2>6, <2>7 DEF SendMonitorElements, Collector
<1> QED
  BY <1>2, <1>3, <1>4 DEF OfferInv

\* The offer agrees with what is booked as far as the invariants say, for any module.
THEOREM OfferInvariance == Spec => []OfferInv
<1>1. OfferInv /\ [Next]_vars => OfferInv'
  BY BookingCallKeeps, DeleteKeeps, DirectoryCallKeeps, ListKeeps DEF Next, ModuleCall
<1> QED
  BY OfferInit, <1>1, PTL DEF Spec

\* Types, and no element is booked in a directory that is not there.
THEOREM ModuleApiTypes == Spec => []TypeOK
<1>1. OfferInv => TypeOK
  BY DEF OfferInv
<1> QED
  BY OfferInvariance, <1>1, PTL

\* Whatever is booked is offered, and only elements that went without the sender being
\* told are offered wrongly.
THEOREM OfferAgreesWithBooking == Spec => []OfferFollowsBooking
<1>1. OfferInv => OfferFollowsBooking
  BY DEF OfferInv, OfferFollowsBooking
<1> QED
  BY OfferInvariance, <1>1, PTL

\* MonitorElementSender keeps its flag up until a collector that announced itself has
\* the list: whatever the module calls, and whenever collectors come, announce themselves
\* and go, a list that is not due was told to the one that is there, or is empty.
THEOREM ListToldUnlessDue == Spec => []FlagKeepsListTold
<1>1. OfferInv => FlagKeepsListTold
  BY DEF OfferInv, SentListIsTold, FlagKeepsListTold
<1> QED
  BY OfferInvariance, <1>1, PTL

=============================================================================
