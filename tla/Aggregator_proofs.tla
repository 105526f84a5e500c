------------------------- MODULE Aggregator_proofs -------------------------
(***************************************************************************)
(* The types of one cyt-mcp process and its clients, that it keeps the     *)
(* catalog it has, and that it loses no notification, for any number of    *)
(* clients and any finite set of tools.                                    *)
(***************************************************************************)
EXTENDS Aggregator, FiniteSetTheorems, TLAPS

\* What is not connected has no request and no task, and what is not running has no
\* catalog, no clients and no refresh.
AwayIsIdle == \A c \in Clients : ~client[c].on => client[c] = Away
DownIsEmpty ==
    proc = "down" => cache = {} /\ Connected = {} /\ job = "off" /\ report = None

Inv == TypeOK /\ AwayIsIdle /\ DownIsEmpty

-----------------------------------------------------------------------------
(* Values.                                                                 *)

LEMMA AwayTyped == Away \in Client /\ ~Away.on
<1>1. IsFiniteSet(Tools) /\ Attempts \in Nat \ {0}
  BY AggregatorAssumption
<1>2. Cardinality(Tools) \in Nat
  BY <1>1, FS_CardinalityType
<1>3. 0 \in 0 .. Cardinality(Tools) /\ 0 \in 0 .. Attempts - 1
  BY <1>1, <1>2
<1> QED
  BY <1>3 DEF Away, Client

LEMMA CountTyped == ASSUME cache \in SUBSET Tools
                    PROVE  Cardinality(cache) \in 0 .. Cardinality(Tools)
<1>1. IsFiniteSet(Tools)
  BY AggregatorAssumption
<1>2. Cardinality(Tools) \in Nat /\ Cardinality(cache) \in Nat
  BY <1>1, FS_Subset, FS_CardinalityType
<1>3. Cardinality(cache) <= Cardinality(Tools)
  BY <1>1, FS_Subset
<1> QED
  BY <1>2, <1>3

LEMMA CatalogsTyped ==
    ASSUME TypeOK, NEW denied \in SUBSET Tools, NEW before \in BOOLEAN
    PROVE  /\ Hydratable(denied) \subseteq SUBSET Tools
           /\ Refreshed(before, denied) \in SUBSET Tools
           /\ \A tools \in SUBSET Tools : /\ Persisted(tools) \in SUBSET Tools
                                          /\ Filtered(tools, denied) \in SUBSET Tools
<1>1. Hydratable(denied) \subseteq SUBSET Tools
  BY DEF TypeOK, Hydratable
<1>2. Refreshed(before, denied) \in SUBSET Tools
  BY DEF TypeOK, Refreshed
<1>3. \A tools \in SUBSET Tools : /\ Persisted(tools) \in SUBSET Tools
                                  /\ Filtered(tools, denied) \in SUBSET Tools
  BY DEF TypeOK, Persisted, Filtered
<1> QED
  BY <1>1, <1>2, <1>3

-----------------------------------------------------------------------------
(* Steps of the clients.                                                   *)

\* A step of one client that is connected, or connects.
LEMMA ClientStep ==
    ASSUME TypeOK, AwayIsIdle, NEW c \in Clients, NEW rec \in Client, rec.on,
           client' = [client EXCEPT ![c] = rec]
    PROVE  /\ client' \in [Clients -> Client]
           /\ Connected' = Connected \cup {c}
           /\ AwayIsIdle'
<1>1. /\ client' \in [Clients -> Client]
      /\ client'[c] = rec
      /\ \A d \in Clients \ {c} : client'[d] = client[d]
  BY DEF TypeOK
<1>2. Connected' = Connected \cup {c}
  BY <1>1 DEF Connected
<1>3. AwayIsIdle'
  BY <1>1 DEF AwayIsIdle
<1> QED
  BY <1>1, <1>2, <1>3

\* A client that has a task, a request or an answer is connected.
LEMMA BusyIsOn ==
    ASSUME Inv, NEW c \in Clients,
           \/ client[c].task # "off"
           \/ client[c].ask # "no"
           \/ client[c].shown # None
           \/ client[c].on
    PROVE  client[c].on /\ proc = "up"
<1>1. client[c].on
  BY DEF Inv, AwayIsIdle, Away
<1> QED
  BY <1>1 DEF Inv, TypeOK, DownIsEmpty, Connected

LEMMA NotifyAllTyped ==
    ASSUME TypeOK, AwayIsIdle, NotifyAll
    PROVE  /\ client' \in [Clients -> Client]
           /\ Connected' = Connected
           /\ AwayIsIdle'
           /\ untold' \subseteq untold
<1>1. \A c \in Clients : Told(c) \in Client /\ Told(c).on = client[c].on
  BY DEF TypeOK, Told, Client
<1>2. \A c \in Clients : client'[c] = IF c \in registered THEN Told(c) ELSE client[c]
  BY DEF NotifyAll
<1>3. client' \in [Clients -> Client]
  <2>1. \A c \in Clients : client[c] \in Client
    BY DEF TypeOK
  <2>2. \A c \in Clients : (IF c \in registered THEN Told(c) ELSE client[c]) \in Client
    BY <1>1, <2>1
  <2> QED
    BY <2>2 DEF NotifyAll
<1>4. \A c \in Clients : client'[c].on = client[c].on
  BY <1>1, <1>2
<1>5. Connected' = Connected
  BY <1>4 DEF Connected
<1>6. AwayIsIdle'
  <2> SUFFICES ASSUME NEW c \in Clients, ~client'[c].on PROVE client'[c] = Away
    BY DEF AwayIsIdle
  <2>1. ~client[c].on
    BY <1>4
  <2>2. c \notin registered
    BY <2>1 DEF TypeOK, Connected
  <2> QED
    BY <1>2, <2>1, <2>2 DEF AwayIsIdle
<1>7. untold' \subseteq untold
  BY DEF NotifyAll
<1> QED
  BY <1>3, <1>5, <1>6, <1>7

-----------------------------------------------------------------------------
(* The invariant.                                                          *)

LEMMA InitInv == Init => Inv
<1> SUFFICES ASSUME Init PROVE Inv
  OBVIOUS
<1>1. MaxEvents \in Nat /\ 0 \in 0 .. MaxEvents
  BY AggregatorAssumption
<1>2. \A c \in Clients : client[c] = Away
  BY DEF Init
<1>3. AwayIsIdle
  BY <1>2 DEF AwayIsIdle
<1>4. client \in [Clients -> Client]
  BY AwayTyped DEF Init
<1> QED
  BY <1>1, <1>2, <1>3, <1>4, AwayTyped DEF Inv, Init, TypeOK, DownIsEmpty, Connected

LEMMA CountedTyped == ASSUME TypeOK, Counted PROVE events' \in 0 .. MaxEvents
<1>1. MaxEvents \in Nat
  BY AggregatorAssumption
<1> QED
  BY <1>1 DEF TypeOK, Counted

\* Steps of one client that leave the cache as it is.
LEMMA NotifyInv == ASSUME Inv, NEW c \in Clients, Notify(c) PROVE Inv'
<1> USE DEF Inv
<1>1. client[c] \in Client
  BY DEF TypeOK
<1>2. CASE NotifyStart(c)
  <2> DEFINE rec == IF cache # {} THEN [Told(c) EXCEPT !.task = "off"]
                                  ELSE [client[c] EXCEPT !.task = "look"]
  <2>1. client[c].on /\ proc = "up"
    BY <1>2, BusyIsOn DEF NotifyStart
  <2>2. rec \in Client /\ rec.on
    BY <1>1, <2>1 DEF Told, Client
  <2>3. client' = [client EXCEPT ![c] = rec]
    BY <1>2 DEF NotifyStart
  <2> HIDE DEF rec
  <2>4. client' \in [Clients -> Client] /\ Connected' = Connected \cup {c} /\ AwayIsIdle'
    BY <2>2, <2>3, ClientStep
  <2>5. registered' \subseteq Connected' /\ untold' \subseteq Connected'
    BY <1>2, <2>4 DEF NotifyStart, TypeOK
  <2> QED
    BY <1>2, <2>1, <2>4, <2>5 DEF NotifyStart, TypeOK, DownIsEmpty, world, process
<1>3. CASE NotifyLook(c)
  <2> DEFINE n == Cardinality(cache)
             over == [client[c] EXCEPT !.task = "off", !.previous = 0, !.attempt = 0]
             told == [over EXCEPT !.due = TRUE]
             again == [client[c] EXCEPT !.previous = n, !.attempt = client[c].attempt + 1]
  <2>1. client[c].on /\ proc = "up"
    BY <1>3, BusyIsOn DEF NotifyLook
  <2>2. n \in 0 .. Cardinality(Tools)
    BY CountTyped DEF TypeOK
  <2>3. 0 \in 0 .. Cardinality(Tools) /\ 0 \in 0 .. Attempts - 1
    BY AwayTyped DEF Away, Client
  <2>4. over \in Client /\ over.on /\ told \in Client /\ told.on
    BY <1>1, <2>1, <2>3 DEF Client
  <2>5. client[c].attempt # Attempts - 1 => again \in Client /\ again.on
    <3>1. Attempts \in Nat \ {0} /\ client[c].attempt \in 0 .. Attempts - 1
      BY <1>1, AggregatorAssumption DEF Client
    <3>2. client[c].attempt # Attempts - 1 => client[c].attempt + 1 \in 0 .. Attempts - 1
      BY <3>1
    <3> QED
      BY <1>1, <2>1, <2>2, <3>2 DEF Client
  <2>6. \E rec \in Client : rec.on /\ client' = [client EXCEPT ![c] = rec]
    <3>1. \/ client' = [client EXCEPT ![c] = told]
          \/ client' = [client EXCEPT ![c] = over]
          \/ /\ client[c].attempt # Attempts - 1
             /\ client' = [client EXCEPT ![c].previous = n, ![c].attempt = @ + 1]
      BY <1>3 DEF NotifyLook
    <3>2. [client EXCEPT ![c].previous = n, ![c].attempt = @ + 1] = [client EXCEPT ![c] = again]
      BY DEF TypeOK, Client
    <3> QED
      BY <2>4, <2>5, <3>1, <3>2
  <2>7. client' \in [Clients -> Client] /\ Connected' = Connected \cup {c} /\ AwayIsIdle'
    BY <2>6, ClientStep
  <2>8. /\ UNCHANGED <<world, process, cache, job, report, registered, events>>
        /\ untold' \subseteq untold
    BY <1>3 DEF NotifyLook
  <2> QED
    BY <2>1, <2>7, <2>8 DEF TypeOK, DownIsEmpty, world, process
<1> QED
  BY <1>2, <1>3 DEF Notify

LEMMA ConnectInv == ASSUME Inv, NEW c \in Clients, Connect(c) PROVE Inv'
<1> USE DEF Inv
<1> DEFINE rec == [Away EXCEPT !.on = TRUE, !.due = TRUE, !.task = "new"]
<1>1. rec \in Client /\ rec.on
  BY AwayTyped DEF Client
<1>2. client' = [client EXCEPT ![c] = rec]
  BY DEF Connect
<1> HIDE DEF rec
<1>3. client' \in [Clients -> Client] /\ Connected' = Connected \cup {c} /\ AwayIsIdle'
  BY <1>1, <1>2, ClientStep
<1> QED
  BY <1>3 DEF Connect, TypeOK, DownIsEmpty, world, process

\* An answer keeps its client connected.
LEMMA AnswerTyped ==
    ASSUME Inv, NEW c \in Clients, NEW tools \in SUBSET Tools, Answer(c, tools),
           client[c].ask # "no"
    PROVE  client' \in [Clients -> Client] /\ Connected' = Connected \cup {c} /\ AwayIsIdle'
<1> DEFINE rec == [client[c] EXCEPT !.ask = "no", !.shown = tools]
<1>1. client[c] \in Client /\ client[c].on
  BY BusyIsOn DEF Inv, TypeOK
<1>2. rec \in Client /\ rec.on
  BY <1>1 DEF Client
<1>3. client' = [client EXCEPT ![c] = rec]
  BY <1>1 DEF Answer, Inv, TypeOK, Client
<1> HIDE DEF rec
<1> QED
  BY <1>2, <1>3, ClientStep DEF Inv

LEMMA ServeInv == ASSUME Inv, NEW c \in Clients, Serve(c) PROVE Inv'
<1> USE DEF Inv
<1>1. client[c] \in Client
  BY DEF TypeOK
<1>2. CASE Ask(c)
  <2> DEFINE rec == [client[c] EXCEPT !.due = FALSE, !.ask = "sent"]
  <2>1. rec \in Client /\ rec.on /\ proc = "up"
    BY <1>1, <1>2, BusyIsOn DEF Ask, Client
  <2>2. client' = [client EXCEPT ![c] = rec]
    BY <1>1, <1>2 DEF Ask, TypeOK, Client
  <2> HIDE DEF rec
  <2>3. client' \in [Clients -> Client] /\ Connected' = Connected \cup {c} /\ AwayIsIdle'
    BY <2>1, <2>2, ClientStep
  <2> QED
    BY <1>2, <2>1, <2>3 DEF Ask, TypeOK, DownIsEmpty, world, process
<1>3. CASE ServeWarm(c)
  <2>1. Stubs \in SUBSET Tools /\ client[c].ask # "no" /\ proc = "up"
    BY <1>3, BusyIsOn DEF ServeWarm, Stubs, TypeOK
  <2>2. client' \in [Clients -> Client] /\ Connected' = Connected \cup {c} /\ AwayIsIdle'
    BY <1>3, <2>1, AnswerTyped DEF ServeWarm
  <2> QED
    BY <1>3, <2>1, <2>2 DEF ServeWarm, TypeOK, DownIsEmpty, world, process
<1>4. CASE ServeHydrated(c)
  <2>1. cache' \in SUBSET Tools
    BY <1>4, CatalogsTyped DEF ServeHydrated, TypeOK
  <2>2. cache' \ deny \in SUBSET Tools /\ client[c].ask # "no"
    BY <1>4, <2>1 DEF ServeHydrated
  <2>3. client' \in [Clients -> Client] /\ Connected' = Connected \cup {c} /\ AwayIsIdle'
    BY <1>4, <2>2, AnswerTyped DEF ServeHydrated
  <2>4. proc = "up"
    BY <2>2, BusyIsOn
  <2> QED
    BY <1>4, <2>1, <2>3, <2>4 DEF ServeHydrated, TypeOK, DownIsEmpty, world, process
<1>5. CASE ServeOn(c)
  <2> DEFINE waiting == [client[c] EXCEPT !.ask = "waiting"]
             live == [client[c] EXCEPT !.ask = "live"]
  <2>1. client[c].on /\ proc = "up"
    BY <1>5, BusyIsOn DEF ServeOn
  <2>2. waiting \in Client /\ waiting.on /\ live \in Client /\ live.on
    BY <1>1, <2>1 DEF Client
  <2>3. client' = [client EXCEPT ![c] = waiting] \/ client' = [client EXCEPT ![c] = live]
    BY <1>5 DEF ServeOn
  <2> HIDE DEF waiting, live
  <2>4. client' \in [Clients -> Client] /\ Connected' = Connected \cup {c} /\ AwayIsIdle'
    BY <2>2, <2>3, ClientStep
  <2> QED
    BY <1>5, <2>1, <2>4 DEF ServeOn, TypeOK, DownIsEmpty, world, process
<1>6. CASE ServeLive(c)
  <2>1. backends \ deny \in SUBSET Tools /\ client[c].ask # "no" /\ proc = "up"
    BY <1>6, BusyIsOn DEF ServeLive, TypeOK
  <2>2. client' \in [Clients -> Client] /\ Connected' = Connected \cup {c} /\ AwayIsIdle'
    BY <1>6, <2>1, AnswerTyped DEF ServeLive
  <2> QED
    BY <1>6, <2>1, <2>2 DEF ServeLive, TypeOK, DownIsEmpty, world, process
<1> QED
  BY <1>2, <1>3, <1>4, <1>5, <1>6 DEF Serve

-----------------------------------------------------------------------------
(* Steps of the process.                                                   *)

\* A step that leaves the clients alone.
LEMMA SameClients ==
    ASSUME Inv, UNCHANGED client
    PROVE  Connected' = Connected /\ AwayIsIdle'
BY DEF Inv, Connected, AwayIsIdle

LEMMA RaisedTyped ==
    ASSUME Inv, NEW denied \in SUBSET Tools, NEW before \in BOOLEAN, Raised(before, denied)
    PROVE  /\ cache' \in SUBSET Tools /\ untold' \subseteq Connected'
           /\ Connected' = Connected /\ AwayIsIdle'
<1>1. Refreshed(before, denied) \in SUBSET Tools
  BY CatalogsTyped DEF Inv
<1>2. Connected' = Connected /\ AwayIsIdle'
  BY SameClients DEF Raised
<1> QED
  BY <1>1, <1>2 DEF Raised, Inv, TypeOK

LEMMA JobInv == ASSUME Inv, JobEnds \/ JobRaises PROVE Inv'
<1> USE DEF Inv
<1>1. CASE JobEnds
  <2>1. cache' \in SUBSET Tools /\ disk' \in SUBSET Tools
    BY <1>1, CatalogsTyped DEF JobEnds, TypeOK
  <2>2. proc = "up"
    BY <1>1 DEF JobEnds, TypeOK, DownIsEmpty
  <2>3. client' \in [Clients -> Client] /\ Connected' = Connected /\ AwayIsIdle'
    <3>1. CASE UNCHANGED client
      BY <3>1, SameClients DEF TypeOK
    <3>2. CASE NotifyAll
      BY <3>2, NotifyAllTyped
    <3> QED
      BY <1>1, <3>1, <3>2 DEF JobEnds
  <2>4. untold' \subseteq Connected'
    BY <1>1, <2>3 DEF JobEnds, TypeOK, NotifyAll
  <2> QED
    BY <1>1, <2>1, <2>2, <2>3, <2>4 DEF JobEnds, TypeOK, DownIsEmpty
<1>2. CASE JobRaises
  <2>1. events' \in 0 .. MaxEvents
    BY <1>2, CountedTyped DEF JobRaises
  <2>2. /\ cache' \in SUBSET Tools /\ untold' \subseteq Connected'
        /\ Connected' = Connected /\ AwayIsIdle'
    BY <1>2, RaisedTyped DEF JobRaises, TypeOK
  <2>3. proc = "up"
    BY <1>2 DEF JobRaises, TypeOK, DownIsEmpty
  <2> QED
    BY <1>2, <2>1, <2>2, <2>3 DEF JobRaises, Raised, TypeOK, DownIsEmpty, world, process
<1> QED
  BY <1>1, <1>2

LEMMA CallInv == ASSUME Inv, NEW c \in Clients, CallEnds(c) PROVE Inv'
<1> USE DEF Inv
<1>1. proc = "up"
  BY BusyIsOn DEF CallEnds
<1>2. report' \in {None} \cup Report
  BY DEF CallEnds, TypeOK, Report
<1>3. Connected' = Connected /\ AwayIsIdle'
  BY SameClients DEF CallEnds, sessions
<1> QED
  BY <1>1, <1>2, <1>3 DEF CallEnds, TypeOK, DownIsEmpty, world, process, sessions

LEMMA ReportInv == ASSUME Inv, Feedback \/ ReportRaises PROVE Inv'
<1> USE DEF Inv
<1>1. report \in Report /\ proc = "up"
  BY DEF Feedback, ReportRaises, ReportStarts, ReportLocks, ReportEnds, TypeOK, DownIsEmpty
<1>2. Connected' = Connected /\ AwayIsIdle'
  BY SameClients
     DEF Feedback, ReportRaises, Raised, ReportStarts, ReportLocks, ReportEnds, sessions
<1>3. CASE ReportStarts \/ ReportLocks
  <2>1. report' \in {None} \cup Report
    BY <1>1, <1>3 DEF ReportStarts, ReportLocks, Report, TypeOK
  <2> QED
    BY <1>1, <1>2, <1>3, <2>1
       DEF ReportStarts, ReportLocks, TypeOK, DownIsEmpty, world, process, sessions
<1>4. CASE ReportEnds
  <2>1. cache' \in SUBSET Tools /\ disk' \in SUBSET Tools
    <3>1. report.before \in BOOLEAN /\ report.deny \in SUBSET Tools
      BY <1>1 DEF Report
    <3>2. cache' \in SUBSET Tools
      BY <1>4, <3>1, CatalogsTyped DEF ReportEnds
    <3> QED
      BY <1>1, <1>4, <3>1, <3>2, CatalogsTyped DEF ReportEnds, TypeOK
  <2> QED
    BY <1>1, <1>2, <1>4, <2>1 DEF ReportEnds, TypeOK, DownIsEmpty
<1>5. CASE ReportRaises
  <2>1. events' \in 0 .. MaxEvents
    BY <1>5, CountedTyped DEF ReportRaises
  <2>2. report.before \in BOOLEAN /\ report.deny \in SUBSET Tools
    BY <1>1 DEF Report
  <2>3. cache' \in SUBSET Tools /\ untold' \subseteq Connected'
    BY <1>5, <2>2, RaisedTyped DEF ReportRaises
  <2> QED
    BY <1>1, <1>2, <1>5, <2>1, <2>3
       DEF ReportRaises, Raised, TypeOK, DownIsEmpty, world, process
<1> QED
  BY <1>3, <1>4, <1>5 DEF Feedback

LEMMA ReloadInv == ASSUME Inv, Reload PROVE Inv'
<1> USE DEF Inv
<1>1. cache' \in SUBSET Tools
  BY CatalogsTyped DEF Reload, TypeOK
<1>2. client' \in [Clients -> Client] /\ Connected' = Connected /\ AwayIsIdle'
  <2>1. CASE UNCHANGED client
    BY <2>1, SameClients DEF TypeOK
  <2>2. CASE NotifyAll
    BY <2>2, NotifyAllTyped
  <2> QED
    BY <2>1, <2>2 DEF Reload
<1>3. untold' \subseteq Connected'
  BY <1>2 DEF Reload, TypeOK, NotifyAll
<1> QED
  BY <1>1, <1>2, <1>3 DEF Reload, TypeOK, DownIsEmpty, world

\* Starts, exits, and what changes outside.
LEMMA ProcessInv == ASSUME Inv, Start \/ Exit \/ ChangeRules \/ ChangeBackends PROVE Inv'
<1> USE DEF Inv
<1>1. CASE Start
  <2>1. cache' \in SUBSET Tools
    BY <1>1, CatalogsTyped DEF Start, TypeOK
  <2>2. Connected' = Connected /\ AwayIsIdle'
    BY <1>1, SameClients DEF Start, sessions
  <2> QED
    BY <1>1, <2>1, <2>2 DEF Start, TypeOK, DownIsEmpty, world, sessions
<1>2. CASE Exit
  <2>1. events' \in 0 .. MaxEvents
    BY <1>2, CountedTyped DEF Exit
  <2>2. client' \in [Clients -> Client] /\ \A c \in Clients : client'[c] = Away
    BY <1>2, AwayTyped DEF Exit
  <2>3. AwayIsIdle' /\ Connected' = {}
    BY <2>2, AwayTyped DEF AwayIsIdle, Connected
  <2> QED
    BY <1>2, <2>1, <2>2, <2>3 DEF Exit, TypeOK, DownIsEmpty, world
<1>3. CASE ChangeRules \/ ChangeBackends
  <2>1. events' \in 0 .. MaxEvents
    BY <1>3, CountedTyped DEF ChangeRules, ChangeBackends
  <2>2. Connected' = Connected /\ AwayIsIdle'
    BY <1>3, SameClients DEF ChangeRules, ChangeBackends, sessions
  <2>3. backends' \subseteq Tools /\ rules' \subseteq Tools /\ news' \in BOOLEAN
    BY <1>3 DEF ChangeRules, ChangeBackends, TypeOK, process
  <2> QED
    BY <1>3, <2>1, <2>2, <2>3
       DEF ChangeRules, ChangeBackends, TypeOK, DownIsEmpty, process, sessions
<1> QED
  BY <1>1, <1>2, <1>3

LEMMA NextInv == Inv /\ [Next]_vars => Inv'
<1> SUFFICES ASSUME Inv, [Next]_vars PROVE Inv'
  OBVIOUS
<1>1. ASSUME NEW c \in Clients, Connect(c) \/ Notify(c) \/ Serve(c) \/ CallEnds(c)
      PROVE  Inv'
  BY <1>1, ConnectInv, NotifyInv, ServeInv, CallInv
<1>2. CASE JobEnds \/ JobRaises
  BY <1>2, JobInv
<1>3. CASE Feedback \/ ReportRaises
  BY <1>3, ReportInv
<1>4. CASE Reload
  BY <1>4, ReloadInv
<1>5. CASE ChangeRules \/ Start \/ Exit \/ ChangeBackends
  BY <1>5, ProcessInv
<1>6. CASE UNCHANGED vars
  <2>1. Connected' = Connected /\ AwayIsIdle'
    BY <1>6, SameClients DEF vars, sessions
  <2> QED
    BY <1>6, <2>1 DEF vars, Inv, TypeOK, DownIsEmpty, world, process, sessions
<1> QED
  BY <1>1, <1>2, <1>3, <1>4, <1>5, <1>6 DEF Next

-----------------------------------------------------------------------------
(* The theorems.                                                           *)

LEMMA InvCorrect == Spec => []Inv
<1>1. Init => Inv
  BY InitInv
<1>2. Inv /\ [Next]_vars => Inv'
  BY NextInv
<1> QED
  BY <1>1, <1>2, PTL DEF Spec

\* Catalogs, rules and answers are sets of configured tools, no notification loop goes
\* past its last attempt, and only sessions that exist are registered.
THEOREM TypeCorrect == Spec => []TypeOK
<1>1. Inv => TypeOK
  BY DEF Inv
<1> QED
  BY <1>1, InvCorrect, PTL

\* A step that empties the cache is the end of a refresh that began with an empty one.
LEMMA KeptByStep ==
    ASSUME Inv, [Next]_vars, cache # {}, ~BeganEmpty, proc' = "up" PROVE cache' # {}
<1>1. CASE UNCHANGED cache
  BY <1>1
<1>2. ASSUME NEW c \in Clients, Connect(c) \/ Notify(c) \/ Serve(c) \/ CallEnds(c)
      PROVE  cache' # {}
  BY <1>2 DEF Connect, Notify, NotifyStart, NotifyLook, CallEnds,
              Serve, Ask, ServeWarm, ServeHydrated, ServeOn, ServeLive
<1>3. CASE JobEnds \/ JobRaises
  BY <1>3 DEF JobEnds, JobRaises, BeganEmpty
<1>4. CASE Feedback \/ ReportRaises
  <2>1. CASE ReportEnds
    <3>1. report.before
      BY <2>1 DEF ReportEnds, BeganEmpty
    <3>2. cache' = IF backends \ report.deny = {} THEN cache ELSE backends \ report.deny
      BY <2>1, <3>1 DEF ReportEnds, Refreshed, Ignored
    <3> QED
      BY <3>2
  <2>2. CASE ReportRaises
    BY <2>2 DEF ReportRaises, Raised, Saveable
  <2> QED
    BY <1>4, <2>1, <2>2 DEF Feedback, ReportStarts, ReportLocks
<1>5. CASE Reload
  BY <1>5 DEF Reload, Filtered
<1>6. CASE Start
  BY <1>6 DEF Start, Inv, DownIsEmpty
<1>7. CASE Exit \/ ChangeRules \/ ChangeBackends
  BY <1>7 DEF Exit, ChangeRules, ChangeBackends
<1>8. CASE UNCHANGED vars
  BY <1>8 DEF vars
<1> QED
  BY <1>2, <1>3, <1>4, <1>5, <1>6, <1>7, <1>8 DEF Next

\* Neither backends that go away nor rules that deny all leave a process without the
\* catalog it had, unless a refresh began before it had one.
THEOREM CatalogIsKeptCorrect == Spec => CatalogIsKept
<1>1. Inv /\ [Next]_vars => [cache # {} /\ ~BeganEmpty /\ proc' = "up" => cache' # {}]_vars
  BY KeptByStep
<1>2. Spec => [][Next]_vars
  BY PTL DEF Spec
<1> QED
  BY <1>1, <1>2, InvCorrect, PTL DEF CatalogIsKept
-----------------------------------------------------------------------------
(* Notifications.                                                          *)

\* Until its session is registered, a client's notify task has yet to begin.
NewTells == \A c \in Clients : client[c].on /\ c \notin registered => client[c].task = "new"

\* c has what it would be given, or is on the way to it.
Owed(c) ==
    \/ client[c].due \/ client[c].ask \in {"sent", "waiting"}
    \/ client[c].task # "off"
    \/ client[c].ask = "no" /\ client[c].shown = Stubs

OwedUnlessUntold(c) == client[c].on /\ cache # {} /\ c \notin untold => Owed(c)

TellInv == NewTells /\ \A c \in Clients : OwedUnlessUntold(c)

\* A step of c that leaves the cache and the other clients as they are.
LEMMA OneClientTells ==
    ASSUME Inv, TellInv, NEW c \in Clients, NEW rec,
           client' = [client EXCEPT ![c] = rec], UNCHANGED <<cache, deny>>,
           registered \subseteq registered', untold \ {c} \subseteq untold',
           c \in registered' \/ rec.task = "new", OwedUnlessUntold(c)'
    PROVE  TellInv'
<1>1. client'[c] = rec /\ \A d \in Clients \ {c} : client'[d] = client[d]
  BY DEF Inv, TypeOK
<1>2. NewTells'
  BY <1>1 DEF TellInv, NewTells
<1>3. ASSUME NEW d \in Clients \ {c} PROVE OwedUnlessUntold(d)'
  BY <1>1 DEF TellInv, OwedUnlessUntold, Owed, Stubs
<1> QED
  BY <1>2, <1>3 DEF TellInv

\* Who is registered is told, who is not will be, whatever the cache has become.
LEMMA NotifyAllTells ==
    ASSUME Inv, TellInv, NotifyAll, UNCHANGED registered
    PROVE  TellInv'
<1>1. \A c \in Clients : client'[c] = IF c \in registered THEN Told(c) ELSE client[c]
  BY DEF NotifyAll
<1>2. \A c \in Clients : Told(c).due /\ Told(c).on = client[c].on /\ Told(c).task = client[c].task
  BY DEF Inv, TypeOK, Told, Client
<1>3. NewTells'
  BY <1>1, <1>2 DEF TellInv, NewTells
<1>4. ASSUME NEW c \in Clients PROVE OwedUnlessUntold(c)'
  <2>1. CASE c \in registered
    BY <1>1, <1>2, <2>1 DEF OwedUnlessUntold, Owed
  <2>2. CASE c \notin registered
    BY <1>1, <2>2 DEF TellInv, NewTells, OwedUnlessUntold, Owed
  <2> QED
    BY <2>1, <2>2
<1> QED
  BY <1>3, <1>4 DEF TellInv

\* A step that leaves clients alone, and the cache too or counts all of them as untold.
LEMMA SilentTells ==
    ASSUME Inv, TellInv, UNCHANGED <<client, registered>>,
           \/ UNCHANGED <<cache, deny, untold>>
           \/ untold' = Connected \/ cache' = {} \/ Connected = {}
    PROVE  TellInv'
<1>1. NewTells'
  BY DEF TellInv, NewTells
<1>2. ASSUME NEW c \in Clients PROVE OwedUnlessUntold(c)'
  BY DEF TellInv, OwedUnlessUntold, Owed, Stubs, Connected
<1> QED
  BY <1>1, <1>2 DEF TellInv

\* The task of a client: it goes from one end of its duty to the other.
LEMMA NotifyTells == ASSUME Inv, TellInv, NEW c \in Clients, Notify(c) PROVE TellInv'
<1>1. client \in [Clients -> Client] /\ client[c] \in Client /\ client[c].on
  BY BusyIsOn DEF Inv, TypeOK, Notify, NotifyStart, NotifyLook
<1>2. UNCHANGED <<cache, deny>> /\ registered \subseteq registered'
  BY DEF Notify, NotifyStart, NotifyLook, process
<1>3. CASE NotifyStart(c)
  <2> DEFINE rec == IF cache # {} THEN [Told(c) EXCEPT !.task = "off"]
                                  ELSE [client[c] EXCEPT !.task = "look"]
  <2>1. client' = [client EXCEPT ![c] = rec] /\ c \in registered' /\ untold \ {c} \subseteq untold'
    BY <1>3 DEF NotifyStart
  <2>2. cache # {} => rec.due
    BY <1>1 DEF Told, Client
  <2> HIDE DEF rec
  <2>3. OwedUnlessUntold(c)'
    BY <1>1, <1>2, <2>1, <2>2 DEF OwedUnlessUntold, Owed
  <2> QED
    BY <1>2, <2>1, <2>3, OneClientTells
<1>4. CASE NotifyLook(c)
  <2> DEFINE n == Cardinality(cache)
             over == [client[c] EXCEPT !.task = "off", !.previous = 0, !.attempt = 0]
             told == [over EXCEPT !.due = TRUE]
             again == [client[c] EXCEPT !.previous = n, !.attempt = client[c].attempt + 1]
  <2>1. c \in registered
    BY <1>1, <1>4 DEF NotifyLook, TellInv, NewTells
  <2>2. cache # {} => n > 0
    <3>1. IsFiniteSet(cache)
      BY AggregatorAssumption, FS_Subset DEF Inv, TypeOK
    <3> QED
      BY <3>1, FS_EmptySet, FS_CardinalityType
  <2>3. told.due /\ again.task = "look"
    BY <1>1, <1>4 DEF NotifyLook, Client
  <2>4. \/ client' = [client EXCEPT ![c] = told]
        \/ client' = [client EXCEPT ![c] = over] /\ cache = {}
        \/ client' = [client EXCEPT ![c] = again]
    <3>1. [client EXCEPT ![c].previous = n, ![c].attempt = @ + 1] = [client EXCEPT ![c] = again]
      BY <1>1 DEF Client
    <3> QED
      BY <1>4, <2>2, <3>1 DEF NotifyLook
  <2>5. PICK rec : /\ client' = [client EXCEPT ![c] = rec]
                   /\ cache = {} \/ rec.due \/ rec.task # "off"
    BY <2>3, <2>4
  <2>6. untold \ {c} \subseteq untold' /\ UNCHANGED registered
    BY <1>4 DEF NotifyLook
  <2>7. client'[c] = rec
    BY <1>1, <2>5
  <2>8. OwedUnlessUntold(c)'
    BY <1>2, <2>5, <2>7 DEF OwedUnlessUntold, Owed
  <2> QED
    BY <1>2, <2>1, <2>5, <2>6, <2>8, OneClientTells
<1> QED
  BY <1>3, <1>4 DEF Notify

\* What a client asks and is answered.
LEMMA ServeTells == ASSUME Inv, TellInv, NEW c \in Clients, Serve(c) PROVE TellInv'
<1>1. client \in [Clients -> Client] /\ client[c] \in Client /\ client[c].on
  BY BusyIsOn DEF Inv, TypeOK, Serve, Ask, ServeWarm, ServeHydrated, ServeOn, ServeLive
<1>2. UNCHANGED registered /\ (c \in registered \/ client[c].task = "new")
  BY <1>1 DEF Serve, Ask, ServeWarm, ServeHydrated, ServeOn, ServeLive, TellInv, NewTells
<1>3. CASE Ask(c)
  <2> DEFINE rec == [client[c] EXCEPT !.due = FALSE, !.ask = "sent"]
  <2>1. client' = [client EXCEPT ![c] = rec] /\ UNCHANGED <<cache, deny, untold>>
    BY <1>1, <1>3 DEF Ask, Client, process
  <2>2. rec.ask = "sent" /\ rec.task = client[c].task
    BY <1>1 DEF Client
  <2> HIDE DEF rec
  <2>3. OwedUnlessUntold(c)'
    BY <1>1, <2>1, <2>2 DEF OwedUnlessUntold, Owed
  <2> QED
    BY <1>2, <2>1, <2>2, <2>3, OneClientTells
<1>4. CASE ServeWarm(c)
  <2> DEFINE rec == [client[c] EXCEPT !.ask = "no", !.shown = Stubs]
  <2>1. client' = [client EXCEPT ![c] = rec] /\ untold' = untold \ {c}
        /\ UNCHANGED <<cache, deny>>
    BY <1>1, <1>4 DEF ServeWarm, Answer, Client, process
  <2>2. rec.ask = "no" /\ rec.shown = Stubs /\ rec.task = client[c].task
    BY <1>1 DEF Client
  <2> HIDE DEF rec
  <2>3. OwedUnlessUntold(c)'
    BY <1>1, <2>1, <2>2 DEF OwedUnlessUntold, Owed, Stubs
  <2> QED
    BY <1>2, <2>1, <2>2, <2>3, OneClientTells
<1>5. CASE ServeHydrated(c)
  <2> DEFINE rec == [client[c] EXCEPT !.ask = "no", !.shown = cache' \ deny]
  <2>1. client' = [client EXCEPT ![c] = rec] /\ untold' = Connected \ {c} /\ UNCHANGED deny
    BY <1>1, <1>5 DEF ServeHydrated, Answer, Client, process
  <2>2. rec.ask = "no" /\ rec.shown = cache' \ deny /\ rec.task = client[c].task
    BY <1>1 DEF Client
  <2> HIDE DEF rec
  <2>3. client'[c] = rec /\ \A d \in Clients \ {c} : client'[d] = client[d]
    BY <1>1, <2>1
  <2>4. NewTells'
    BY <1>2, <2>2, <2>3 DEF TellInv, NewTells
  <2>5. OwedUnlessUntold(c)'
    BY <2>1, <2>2, <2>3 DEF OwedUnlessUntold, Owed, Stubs
  <2>6. ASSUME NEW d \in Clients \ {c} PROVE OwedUnlessUntold(d)'
    BY <2>1, <2>3 DEF OwedUnlessUntold, Connected
  <2> QED
    BY <2>4, <2>5, <2>6 DEF TellInv
<1>6. CASE ServeOn(c)
  <2> DEFINE waiting == [client[c] EXCEPT !.ask = "waiting"]
             live == [client[c] EXCEPT !.ask = "live"]
  <2>1. PICK rec \in {waiting, live} : client' = [client EXCEPT ![c] = rec]
    BY <1>6 DEF ServeOn
  <2>2. rec.task = client[c].task
    BY <1>1, <2>1 DEF Client
  <2>3. UNCHANGED <<cache, deny, untold>> /\ cache' = {}
    BY <1>6 DEF ServeOn, process
  <2>4. OwedUnlessUntold(c)'
    BY <2>3 DEF OwedUnlessUntold
  <2> QED
    BY <1>2, <2>1, <2>2, <2>3, <2>4, OneClientTells
<1>7. CASE ServeLive(c)
  <2> DEFINE rec == [client[c] EXCEPT !.ask = "no", !.shown = backends \ deny]
  <2>1. client' = [client EXCEPT ![c] = rec] /\ UNCHANGED <<cache, deny, untold>>
    BY <1>1, <1>7 DEF ServeLive, Answer, Client, process
  <2>2. rec.due = client[c].due /\ rec.task = client[c].task
    BY <1>1 DEF Client
  <2> HIDE DEF rec
  <2>3. client'[c] = rec
    BY <1>1, <2>1
  \* A cache that was filled since the request passed it by has told its client.
  <2>4. OwedUnlessUntold(c)'
    BY <1>1, <1>7, <2>1, <2>2, <2>3 DEF ServeLive, TellInv, OwedUnlessUntold, Owed
  <2> QED
    BY <1>2, <2>1, <2>2, <2>4, OneClientTells
<1> QED
  BY <1>3, <1>4, <1>5, <1>6, <1>7 DEF Serve

\* Every step of the process that changes the cache or the rules tells all clients or
\* counts them as untold.
LEMMA NextTells == ASSUME Inv, TellInv, [Next]_vars PROVE TellInv'
<1>1. ASSUME NEW c \in Clients, Connect(c) PROVE TellInv'
  <2> DEFINE rec == [Away EXCEPT !.on = TRUE, !.due = TRUE, !.task = "new"]
  <2>1. client' = [client EXCEPT ![c] = rec] /\ UNCHANGED <<cache, deny, registered, untold>>
    BY <1>1 DEF Connect, process
  <2>2. rec.due /\ rec.task = "new"
    BY DEF Away
  <2> HIDE DEF rec
  <2>3. client'[c] = rec
    BY <2>1 DEF Inv, TypeOK
  <2>4. OwedUnlessUntold(c)'
    BY <2>2, <2>3 DEF OwedUnlessUntold, Owed
  <2> QED
    BY <2>1, <2>2, <2>4, OneClientTells
<1>2. ASSUME NEW c \in Clients, CallEnds(c) PROVE TellInv'
  BY <1>2, SilentTells DEF CallEnds, process, sessions
<1>3. CASE JobEnds
  <2>1. CASE cache' # {}
    BY <1>3, <2>1, NotifyAllTells DEF JobEnds
  <2>2. CASE cache' = {}
    BY <1>3, <2>2, SilentTells DEF JobEnds
  <2> QED
    BY <2>1, <2>2
<1>4. CASE ReportEnds
  BY <1>4, SilentTells DEF ReportEnds
<1>5. CASE ReportStarts \/ ReportLocks
  BY <1>5, SilentTells DEF ReportStarts, ReportLocks, process, sessions
<1>6. CASE Reload
  <2>1. CASE deny # rules
    BY <1>6, <2>1, NotifyAllTells DEF Reload
  <2>2. CASE deny = rules
    BY <1>6, <2>2, SilentTells DEF Reload
  <2> QED
    BY <2>1, <2>2
<1>7. CASE ChangeRules \/ ChangeBackends
  BY <1>7, SilentTells DEF ChangeRules, ChangeBackends, process, sessions
<1>8. CASE Start
  BY <1>8, SilentTells DEF Start, sessions, Inv, DownIsEmpty
<1>9. CASE Exit
  <2>1. \A c \in Clients : ~client'[c].on
    BY <1>9, AwayTyped DEF Exit
  <2> QED
    BY <2>1 DEF TellInv, NewTells, OwedUnlessUntold
<1>10. CASE UNCHANGED vars
  BY <1>10, SilentTells DEF vars, process, sessions
<1>11. CASE JobRaises \/ ReportRaises
  <2>1. /\ UNCHANGED <<client, registered, deny>>
        /\ UNCHANGED <<cache, untold>> \/ untold' = Connected
    BY <1>11 DEF JobRaises, ReportRaises, Raised, process
  <2> QED
    BY <2>1, SilentTells
<1> QED
  BY <1>1, <1>2, <1>3, <1>4, <1>5, <1>6, <1>7, <1>8, <1>9, <1>10,
     <1>11, NotifyTells, ServeTells
     DEF Next, Feedback

\* However lists, refreshes, notify tasks and reloads interleave, a client whose tools are
\* not those of the cache is about to list or to be told, unless the last change of the
\* cache was one that tells nobody.
THEOREM StaleIsDueCorrect == Spec => []StaleIsDue
<1>1. Init => TellInv
  <2>1. Init => \A c \in Clients : ~client[c].on
    BY AwayTyped DEF Init
  <2> QED
    BY <2>1 DEF TellInv, NewTells, OwedUnlessUntold
<1>2. Inv /\ TellInv /\ [Next]_vars => TellInv'
  BY NextTells
<1>3. TellInv => StaleIsDue
  BY DEF TellInv, OwedUnlessUntold, Owed, StaleIsDue
<1>4. Spec => Init /\ [][Next]_vars
  BY PTL DEF Spec
<1> QED
  BY <1>1, <1>2, <1>3, <1>4, InvCorrect, PTL
=============================================================================
