--------------------------- MODULE HookDaemon_proofs ---------------------------
(***************************************************************************)
(* Proofs about the life of the hook daemon, for any number of commands,   *)
(* servers, ports, events and mishaps: there is one daemon and at most one *)
(* more for each mishap, pid.json tells of all but one for each, and a stop*)
(* that ends leaves at most one for each.                                  *)
(*                                                                         *)
(* The argument is an account of the servers that serve or may come to.    *)
(* Whoever holds daemon.lock knows, by where it is at, of one of them (the *)
(* child it waits for, the daemon it found, those of the ports that it has *)
(* still to stop); when nobody does, pid.json and the configured port tell *)
(* of those that serve.  All the others are paid for by mishaps.           *)
(***************************************************************************)
EXTENDS HookDaemon, FiniteSetTheorems, WellFoundedInduction, NaturalsInduction, TLAPS

\* Who is at work under the lock is its holder, and nobody else is.
HolderWorks == \A c \in Commands : lock = c <=> cmd[c].at \notin {"idle", "wait"}

\* What a command has found or made by the time it needs it.
InPlace ==
    /\ \A c \in Commands :
         /\ cmd[c].at \in {"found", "spawn", "await", "write", "serving"} => cmd[c].port \in Ports
         /\ cmd[c].at \in {"await", "write", "serving"} => cmd[c].child \in Servers
    /\ \A s \in Servers : srv[s] = Gone \/ (srv[s].at # "none" /\ srv[s].port \in Ports)

Shape == TypeOK /\ HolderWorks /\ InPlace

\* A set of ports has its lowest.
LEMMA LowestPort ==
    ASSUME NEW S \in SUBSET Nat, S # {}
    PROVE  Min(S) \in S
<1>1. PICK x \in S : \A y \in S : ~(<<y, x>> \in OpToRel(<, Nat))
  BY NatLessThanWellFounded, WFMin
<1>2. \A y \in S : ~(y < x)
  BY <1>1, Zenon DEF OpToRel
<1>3. \A y \in S : x <= y
  BY <1>2
<1> QED
  BY <1>3 DEF Min

-----------------------------------------------------------------------------
(* Ports, entries and processes.                                            *)

LEMMA BasePortIsOne == BasePort \in Ports
  BY LowestPort, DaemonAssumption DEF BasePort

LEMMA PortsKnown ==
    ASSUME TypeOK, InPlace
    PROVE  /\ Known \subseteq Ports
           /\ \A found \in SUBSET (Known \cap Live) : found # {} => Min(found) \in found \cap Ports
<1>1. Known \subseteq Ports
  BY BasePortIsOne DEF Known, Recorded, TypeOK, Registry, Entry
<1>2. \A found \in SUBSET (Known \cap Live) : found # {} => Min(found) \in found
  BY <1>1, LowestPort, DaemonAssumption
<1> QED
  BY <1>1, <1>2

\* _upsert_by_port leaves an entry for the port.
LEMMA UpsertedEntry ==
    ASSUME TypeOK, NEW p \in Ports, NEW s \in Servers \cup {None}
    PROVE  /\ Upserted(p, s) \in Registry
           /\ \A e \in Entry : e.port = p /\ e.pid = s => e \in Upserted(p, s).entries
<1>1. [port |-> p, pid |-> s] \in Entry
  BY DEF Entry
<1>2. OneFor(p, s) \in SUBSET Entry
  BY <1>1 DEF OneFor, TypeOK, Registry
<1>3. Upserted(p, s) \in Registry
  BY <1>2 DEF Upserted, Registry
<1>4. [port |-> p, pid |-> s] \in Upserted(p, s).entries
  BY DEF Upserted, OneFor
<1>5. ASSUME NEW e \in Entry, e.port = p, e.pid = s
      PROVE  e = [port |-> p, pid |-> s]
  BY <1>5 DEF Entry
<1> QED
  BY <1>3, <1>4, <1>5

LEMMA GoneIsServer == Gone \in Server /\ Gone.at = "none"
  BY DEF Gone, Server

LEMMA IdleIsCommand == Idle \in Command /\ Idle.at = "idle"
  BY DEF Idle, Command

\* Killing only takes servers away.
LEMMA KilledServers ==
    ASSUME TypeOK, NEW K
    PROVE  /\ Killed(K) \in [Servers -> Server]
           /\ \A s \in Servers : Killed(K)[s] = (IF s \in K THEN Gone ELSE srv[s])
  BY GoneIsServer DEF Killed, TypeOK

-----------------------------------------------------------------------------
(* The shape of the state.                                                  *)

\* The places of one command and of one server.
CommandInPlace(n) ==
    /\ n.at \in {"found", "spawn", "await", "write", "serving"} => n.port \in Ports
    /\ n.at \in {"await", "write", "serving"} => n.child \in Servers

ServersInPlace(v) ==
    v \in [Servers -> Server] /\ \A s \in Servers : v[s] = Gone \/ (v[s].at # "none" /\ v[s].port \in Ports)

\* The rest of the type invariant.
Counters ==
    /\ reg \in Registry /\ launch \in Registry \cup {None} /\ other \subseteq Ports
    /\ events \in 0 .. MaxEvents /\ mishaps \in 0 .. MaxMishaps

\* The holder of the lock goes on with what it does.
LEMMA HolderGoes ==
    ASSUME Shape, NEW c \in Commands, cmd[c].at \notin {"idle", "wait"},
           NEW n \in Command, n.at \notin {"idle", "wait"}, CommandInPlace(n), Goes(c, n),
           ServersInPlace(srv'), Counters'
    PROVE  Shape'
<1> USE DEF Shape
<1>1. cmd' = [cmd EXCEPT ![c] = n] /\ lock' = lock
  BY DEF Goes
<1>2. cmd' \in [Commands -> Command]
  BY <1>1 DEF TypeOK
<1>3. TypeOK'
  BY <1>1, <1>2 DEF TypeOK, Counters, ServersInPlace
<1>4. HolderWorks'
  BY <1>1 DEF HolderWorks, TypeOK
<1>5. InPlace'
  BY <1>1 DEF InPlace, TypeOK, CommandInPlace, ServersInPlace
<1> QED
  BY <1>3, <1>4, <1>5

\* The holder of the lock is done.
LEMMA HolderEnds ==
    ASSUME Shape, NEW c \in Commands, cmd[c].at \notin {"idle", "wait"}, Ends(c),
           ServersInPlace(srv'), Counters'
    PROVE  Shape'
<1> USE DEF Shape
<1>1. cmd' = [cmd EXCEPT ![c] = Idle] /\ lock' = None /\ lock = c
  BY DEF Ends, HolderWorks
<1>2. cmd' \in [Commands -> Command]
  BY <1>1, IdleIsCommand DEF TypeOK
<1>3. TypeOK'
  BY <1>1, <1>2 DEF TypeOK, Counters, ServersInPlace
<1>4. HolderWorks'
  BY <1>1, IdleIsCommand, DaemonAssumption DEF HolderWorks, TypeOK
<1>5. InPlace'
  BY <1>1, IdleIsCommand DEF InPlace, TypeOK, ServersInPlace
<1> QED
  BY <1>3, <1>4, <1>5

\* What only servers and other programs do.
LEMMA OthersMove ==
    ASSUME Shape, UNCHANGED <<lock, cmd>>, ServersInPlace(srv'), Counters'
    PROVE  Shape'
  BY DEF Shape, TypeOK, HolderWorks, InPlace, Counters, ServersInPlace

LEMMA ShapeParts ==
    ASSUME Shape
    PROVE  /\ Counters /\ ServersInPlace(srv)
           /\ \A c \in Commands : cmd[c] \in Command /\ CommandInPlace(cmd[c])
           /\ \A K : ServersInPlace(Killed(K))
<1>1. Counters /\ ServersInPlace(srv)
  BY DEF Shape, TypeOK, InPlace, Counters, ServersInPlace
<1>2. \A c \in Commands : cmd[c] \in Command /\ CommandInPlace(cmd[c])
  BY DEF Shape, TypeOK, InPlace, CommandInPlace
<1>3. ASSUME NEW K PROVE ServersInPlace(Killed(K))
  <2>1. /\ Killed(K) \in [Servers -> Server]
        /\ \A s \in Servers : Killed(K)[s] = (IF s \in K THEN Gone ELSE srv[s])
    BY KilledServers DEF Shape
  <2>2. ASSUME NEW s \in Servers
        PROVE  Killed(K)[s] = Gone \/ (Killed(K)[s].at # "none" /\ Killed(K)[s].port \in Ports)
    <3>1. Killed(K)[s] = Gone \/ Killed(K)[s] = srv[s]
      BY <2>1
    <3>2. srv[s] = Gone \/ (srv[s].at # "none" /\ srv[s].port \in Ports)
      BY <1>1 DEF ServersInPlace
    <3> QED
      BY <3>1, <3>2
  <2> QED
    BY <2>1, <2>2 DEF ServersInPlace
<1> QED
  BY <1>1, <1>2, <1>3

\* A step of the holder of the lock.
LEMMA ShapeOfStep ==
    ASSUME Shape, NEW c \in Commands, Step(c)
    PROVE  Shape'
<1> DEFINE m == cmd[c]
<1>1. Counters /\ ServersInPlace(srv) /\ m \in Command /\ CommandInPlace(m)
      /\ \A K : ServersInPlace(Killed(K))
  BY ShapeParts
<1>2. Known \subseteq Ports /\ \A found \in SUBSET (Known \cap Live) : found # {} => Min(found) \in Ports
  BY PortsKnown DEF Shape
<1>3. \A p \in Ports, s \in Servers \cup {None} : Upserted(p, s) \in Registry
  BY UpsertedEntry DEF Shape
<1>4. MaxMishaps \in Nat /\ MaxEvents \in Nat
  BY DaemonAssumption
<1>5. Mishap => mishaps' \in 0 .. MaxMishaps /\ events' \in 0 .. MaxEvents
  BY <1>1, <1>4 DEF Mishap, Counters
<1>6. Fine => mishaps' \in 0 .. MaxMishaps /\ events' \in 0 .. MaxEvents
  BY <1>1 DEF Fine, Counters
<1> HIDE DEF m
<1>7. ASSUME NEW n \in Command, n.at \notin {"idle", "wait"}, CommandInPlace(n), Goes(c, n),
             m.at \notin {"idle", "wait"}, ServersInPlace(srv'), Counters'
      PROVE  Shape'
  BY <1>7, HolderGoes DEF m
<1>8. ASSUME Ends(c), m.at \notin {"idle", "wait"}, ServersInPlace(srv'), Counters'
      PROVE  Shape'
  BY <1>8, HolderEnds DEF m
<1>9. CASE Probe(c)
  <2>1. ServersInPlace(srv') /\ Counters' /\ m.at = "probe"
    BY <1>9, <1>1, <1>5, <1>6 DEF Probe, Reusable, Counters, ServersInPlace, At, m
  <2>2. PICK found \in SUBSET (Known \cap Live) :
          Goes(c, IF found = {} THEN [m EXCEPT !.at = "choose"]
                  ELSE [m EXCEPT !.at = "found", !.port = Min(found)])
    BY <1>9 DEF Probe, m
  <2>3. CASE found = {}
    <3> DEFINE n == [m EXCEPT !.at = "choose"]
    <3>1. n \in Command /\ n.at = "choose"
      BY <1>1 DEF Command
    <3>2. Goes(c, n)
      BY <2>2, <2>3
    <3> QED
      BY <1>7, <2>1, <3>1, <3>2 DEF CommandInPlace
  <2>4. CASE found # {}
    <3> DEFINE n == [m EXCEPT !.at = "found", !.port = Min(found)]
    <3>1. n \in Command /\ n.at = "found" /\ n.port \in Ports
      BY <1>1, <1>2, <2>4 DEF Command
    <3>2. Goes(c, n)
      BY <2>2, <2>4
    <3> QED
      BY <1>7, <2>1, <3>1, <3>2 DEF CommandInPlace
  <2> QED
    BY <2>3, <2>4
<1>10. CASE Reuse(c)
  <2>1. m.at = "found" /\ m.port \in Ports /\ Ends(c) /\ reg' = Upserted(m.port, None)
        /\ Fine /\ UNCHANGED <<srv, other, launch>>
    BY <1>1, <1>10 DEF Reuse, At, CommandInPlace, m
  <2>2. ServersInPlace(srv') /\ Counters'
    BY <1>1, <1>3, <1>6, <2>1 DEF Counters, ServersInPlace
  <2> QED
    BY <1>8, <2>1, <2>2
<1>11. CASE Replace(c)
  <2> DEFINE n == [m EXCEPT !.at = "choose", !.port = None]
  <2>1. m.at = "found" /\ Goes(c, n) /\ srv' = Killed(On(m.port)) /\ other' = other \ {m.port}
        /\ Fine /\ UNCHANGED <<reg, launch>>
    BY <1>11 DEF Replace, At, m
  <2>2. ServersInPlace(srv') /\ Counters'
    BY <1>1, <1>6, <2>1 DEF Counters
  <2>3. n \in Command /\ n.at = "choose"
    BY <1>1 DEF Command
  <2> QED
    BY <1>7, <2>1, <2>2, <2>3 DEF CommandInPlace
<1>12. CASE Choose(c)
  <2> DEFINE free == {p \in Ports : ~InUse(p)}
             n == [m EXCEPT !.at = "spawn", !.port = Min(free)]
  <2>1. m.at = "choose" /\ (IF free = {} THEN Ends(c) ELSE Goes(c, n))
        /\ Fine /\ UNCHANGED <<reg, srv, other, launch>>
    BY <1>12 DEF Choose, At, m
  <2>2. ServersInPlace(srv') /\ Counters'
    BY <1>1, <1>6, <2>1 DEF Counters, ServersInPlace
  <2>3. free # {} => Min(free) \in Ports
    BY LowestPort, DaemonAssumption
  <2> HIDE DEF free
  <2>4. free # {} => n \in Command /\ n.at = "spawn" /\ n.port \in Ports
    BY <1>1, <2>3 DEF Command
  <2> HIDE DEF n
  <2> QED
    BY <1>7, <1>8, <2>1, <2>2, <2>4 DEF CommandInPlace
<1>13. CASE Spawn(c)
  <2> DEFINE p == m.port
             cleared == IF Forced(c) THEN Killed(On(p)) ELSE srv
             fresh == {s \in Servers : /\ cleared[s] = Gone
                                       /\ \A e \in reg.entries : e.pid # s
                                       /\ \A d \in Commands : cmd[d].child # s}
             child == CHOOSE s \in fresh : TRUE
             young == [at |-> "starting", port |-> p]
             fore == [m EXCEPT !.at = "serving", !.child = child]
             back == [m EXCEPT !.at = "await", !.child = child]
  <2>1. /\ m.at = "spawn" /\ fresh # {}
        /\ other' = IF Forced(c) THEN other \ {p} ELSE other
        /\ srv' = [cleared EXCEPT ![child] = young]
        /\ \/ Goes(c, fore) /\ reg' = Upserted(p, child)
           \/ Goes(c, back) /\ UNCHANGED reg
        /\ Fine /\ UNCHANGED launch
    BY <1>13, Zenon DEF Spawn, At, m
  <2>2. child \in Servers /\ ServersInPlace(cleared)
    BY <1>1, <2>1
  <2>3. p \in Ports /\ young \in Server
    BY <1>1, <2>1 DEF CommandInPlace, Server
  <2> HIDE DEF fresh, child, cleared
  <2>4. ServersInPlace(srv')
    BY <2>1, <2>2, <2>3 DEF ServersInPlace
  <2>5. Counters'
    BY <1>1, <1>3, <1>6, <2>1, <2>2, <2>3 DEF Counters
  <2>6. /\ fore \in Command /\ fore.at = "serving" /\ fore.port \in Ports /\ fore.child \in Servers
        /\ back \in Command /\ back.at = "await" /\ back.port \in Ports /\ back.child \in Servers
    BY <1>1, <2>2, <2>3 DEF Command
  <2> HIDE DEF fore, back
  <2> QED
    BY <1>7, <2>1, <2>4, <2>5, <2>6 DEF CommandInPlace
<1>14. CASE Answers(c)
  <2> DEFINE n == [m EXCEPT !.at = "write"]
  <2>1. m.at = "await" /\ Goes(c, n) /\ Fine /\ UNCHANGED <<reg, srv, other, launch>>
    BY <1>14 DEF Answers, At, m
  <2>2. ServersInPlace(srv') /\ Counters'
    BY <1>1, <1>6, <2>1 DEF Counters, ServersInPlace
  <2>3. n \in Command /\ n.at = "write" /\ n.port \in Ports /\ n.child \in Servers
    BY <1>1, <2>1 DEF Command, CommandInPlace
  <2> QED
    BY <1>7, <2>1, <2>2, <2>3 DEF CommandInPlace
<1>15. CASE NoAnswer(c)
  <2> DEFINE s == m.child
             again == [m EXCEPT !.at = "spawn", !.child = None, !.attempt = 1]
             back == [m EXCEPT !.at = "fallback", !.child = None]
  <2>1. /\ m.at = "await"
        /\ \/ srv[s] = Gone /\ Fine /\ UNCHANGED srv
           \/ srv[s] # Gone /\ Mishap /\ srv' = [srv EXCEPT ![s].at = "dying"]
        /\ Goes(c, again) \/ Goes(c, back) \/ Ends(c)
        /\ UNCHANGED <<reg, other, launch>>
    BY <1>15, Zenon DEF NoAnswer, At, m
  <2>2. s \in Servers /\ m.port \in Ports
    BY <1>1, <2>1 DEF CommandInPlace
  <2>3. ASSUME UNCHANGED srv PROVE ServersInPlace(srv')
    BY <1>1, <2>3 DEF ServersInPlace
  <2>4. ASSUME srv[s] # Gone, srv' = [srv EXCEPT ![s].at = "dying"]
        PROVE  ServersInPlace(srv')
    <3> DEFINE old == [srv[s] EXCEPT !.at = "dying"]
    <3>1. srv[s] \in Server /\ srv[s].port \in Ports
      BY <1>1, <2>2, <2>4 DEF ServersInPlace
    <3>2. old \in Server /\ old.at = "dying" /\ old.port \in Ports
      BY <3>1 DEF Server
    <3>3. srv' = [srv EXCEPT ![s] = old]
      BY <2>4
    <3> HIDE DEF old
    <3> QED
      BY <1>1, <2>2, <3>2, <3>3 DEF ServersInPlace
  <2>5. ServersInPlace(srv')
    BY <2>1, <2>3, <2>4
  <2>6. Counters'
    BY <1>1, <1>5, <1>6, <2>1 DEF Counters
  <2>7. again \in Command /\ again.at = "spawn" /\ again.port \in Ports
    <3> DEFINE waited == [m EXCEPT !.at = "spawn", !.child = None]
    <3>1. waited \in Command /\ waited.at = "spawn" /\ waited.port \in Ports
      BY <1>1, <2>2 DEF Command
    <3>2. again = [waited EXCEPT !.attempt = 1]
      OBVIOUS
    <3> HIDE DEF waited
    <3> QED
      BY <3>1, <3>2 DEF Command
  <2>8. back \in Command /\ back.at = "fallback"
    BY <1>1, <2>2 DEF Command
  <2> HIDE DEF again, back
  <2> QED
    BY <1>7, <1>8, <2>1, <2>5, <2>6, <2>7, <2>8 DEF CommandInPlace
<1>16. CASE Write(c)
  <2>1. m.at = "write" /\ m.port \in Ports /\ m.child \in Servers /\ Ends(c)
        /\ reg' = Upserted(m.port, m.child) /\ Fine /\ UNCHANGED <<srv, other, launch>>
    BY <1>1, <1>16 DEF Write, At, CommandInPlace, m
  <2>2. ServersInPlace(srv') /\ Counters'
    BY <1>1, <1>3, <1>6, <2>1 DEF Counters, ServersInPlace
  <2> QED
    BY <1>8, <2>1, <2>2
<1>17. CASE Fallback(c)
  <2>1. m.at = "fallback" /\ Ends(c) /\ (Fine \/ Mishap) /\ UNCHANGED <<srv, other, launch>>
    BY <1>17 DEF Fallback, Reusable, At, m
  <2>2. PICK found \in SUBSET (Known \cap Live) :
          reg' = IF found = {} THEN reg ELSE Upserted(Min(found), None)
    BY <1>17 DEF Fallback
  <2>3. reg' \in Registry
    BY <1>1, <1>2, <1>3, <2>2 DEF Counters
  <2>4. ServersInPlace(srv') /\ Counters'
    BY <1>1, <1>5, <1>6, <2>1, <2>3 DEF Counters, ServersInPlace
  <2> QED
    BY <1>8, <2>1, <2>4
<1>18. CASE ForegroundEnds(c)
  <2>1. m.at = "serving" /\ Ends(c) /\ Fine /\ UNCHANGED <<reg, srv, other, launch>>
    BY <1>18 DEF ForegroundEnds, At, m
  <2>2. ServersInPlace(srv') /\ Counters'
    BY <1>1, <1>6, <2>1 DEF Counters, ServersInPlace
  <2> QED
    BY <1>8, <2>1, <2>2
<1>19. CASE StopPort(c)
  <2>1. PICK p \in m.targets :
          /\ srv' = Killed(Victims(p)) /\ other' = other \ {p}
          /\ Goes(c, [m EXCEPT !.targets = @ \ {p}])
    BY <1>19 DEF StopPort, m
  <2> DEFINE n == [m EXCEPT !.targets = @ \ {p}]
  <2>2. m.at = "stop" /\ Fine /\ UNCHANGED <<reg, launch>>
    BY <1>19 DEF StopPort, At, m
  <2>3. ServersInPlace(srv') /\ Counters'
    BY <1>1, <1>6, <2>1, <2>2 DEF Counters
  <2>4. n \in Command /\ n.at = "stop"
    BY <1>1, <2>2 DEF Command
  <2> QED
    BY <1>7, <2>1, <2>2, <2>3, <2>4 DEF CommandInPlace
<1>20. CASE Clear(c)
  <2> DEFINE n == [m EXCEPT !.at = "force"]
  <2>1. m.at = "stop" /\ reg' = NoEntries /\ (Goes(c, n) \/ Ends(c))
        /\ Fine /\ UNCHANGED <<srv, other, launch>>
    BY <1>20 DEF Clear, At, m
  <2>2. ServersInPlace(srv') /\ Counters'
    BY <1>1, <1>6, <2>1 DEF Counters, ServersInPlace, NoEntries, Registry
  <2>3. n \in Command /\ n.at = "force"
    BY <1>1 DEF Command
  <2> QED
    BY <1>7, <1>8, <2>1, <2>2, <2>3 DEF CommandInPlace
<1>21. CASE ClearBase(c)
  <2> DEFINE n == [m EXCEPT !.at = "choose"]
  <2>1. m.at = "force" /\ Goes(c, n) /\ srv' = Killed(On(BasePort)) /\ other' = other \ {BasePort}
        /\ Fine /\ UNCHANGED <<reg, launch>>
    BY <1>21 DEF ClearBase, At, m
  <2>2. ServersInPlace(srv') /\ Counters'
    BY <1>1, <1>6, <2>1 DEF Counters
  <2>3. n \in Command /\ n.at = "choose"
    BY <1>1 DEF Command
  <2> QED
    BY <1>7, <2>1, <2>2, <2>3 DEF CommandInPlace
<1> QED
  BY <1>9, <1>10, <1>11, <1>12, <1>13, <1>14, <1>15, <1>16, <1>17, <1>18, <1>19, <1>20, <1>21
     DEF Step

LEMMA ShapeOfNext ==
    ASSUME Shape, Next
    PROVE  Shape'
<1>1. Counters /\ ServersInPlace(srv) /\ \A K : ServersInPlace(Killed(K))
  BY ShapeParts
<1>2. \A c \in Commands : cmd[c] \in Command /\ CommandInPlace(cmd[c])
  BY ShapeParts
<1>3. MaxMishaps \in Nat /\ MaxEvents \in Nat
  BY DaemonAssumption
<1>4. /\ Mishap => mishaps' \in 0 .. MaxMishaps /\ events' \in 0 .. MaxEvents
      /\ Event => mishaps' \in 0 .. MaxMishaps /\ events' \in 0 .. MaxEvents
      /\ Fine => mishaps' \in 0 .. MaxMishaps /\ events' \in 0 .. MaxEvents
  BY <1>1, <1>3 DEF Mishap, Event, Fine, Counters
<1>5. ASSUME NEW c \in Commands, NEW kind \in Kinds, Begin(c, kind)
      PROVE  Shape'
  <2> DEFINE n == [Idle EXCEPT !.kind = kind, !.at = "wait"]
  <2>1. cmd[c].at = "idle" /\ cmd' = [cmd EXCEPT ![c] = n] /\ UNCHANGED <<lock, reg, srv, other, launch>>
    BY <1>5 DEF Begin, At, Goes
  <2>2. n \in Command /\ n.at = "wait"
    BY DEF Idle, Command
  <2>3. Counters' /\ ServersInPlace(srv')
    BY <1>1, <1>4, <1>5, <2>1 DEF Begin, Counters
  <2> HIDE DEF n
  <2>4. TypeOK'
    BY <2>1, <2>2, <2>3 DEF Shape, TypeOK, Counters, ServersInPlace
  <2>5. HolderWorks'
    BY <2>1, <2>2 DEF Shape, TypeOK, HolderWorks
  <2>6. InPlace'
    BY <2>1, <2>2, <2>3 DEF Shape, TypeOK, InPlace, ServersInPlace
  <2> QED
    BY <2>4, <2>5, <2>6 DEF Shape
<1>6. ASSUME NEW c \in Commands, Acquire(c)
      PROVE  Shape'
  <2> DEFINE stopping == [cmd[c] EXCEPT !.at = "stop", !.targets = Known]
             starting == [cmd[c] EXCEPT !.at = "probe"]
  <2>1. PICK n \in {stopping, starting} : cmd' = [cmd EXCEPT ![c] = n]
    BY <1>6 DEF Acquire
  <2>2. cmd[c].at = "wait" /\ lock = None /\ lock' = c /\ UNCHANGED <<reg, srv, other, launch>>
    BY <1>6 DEF Acquire, At
  <2>3. n \in Command /\ n.at \in {"stop", "probe"}
    BY <1>2, PortsKnown DEF Shape, Command
  <2>4. Counters' /\ ServersInPlace(srv')
    BY <1>1, <1>4, <1>6, <2>2 DEF Acquire, Counters
  <2>5. TypeOK'
    BY <2>1, <2>2, <2>3, <2>4 DEF Shape, TypeOK, Counters, ServersInPlace
  <2>6. HolderWorks'
    BY <2>1, <2>2, <2>3, DaemonAssumption DEF Shape, TypeOK, HolderWorks
  <2>7. InPlace'
    BY <2>1, <2>2, <2>3, <2>4 DEF Shape, TypeOK, InPlace, ServersInPlace
  <2> QED
    BY <2>5, <2>6, <2>7 DEF Shape
<1>7. ASSUME NEW c \in Commands, GiveUp(c)
      PROVE  Shape'
  <2>1. cmd[c].at = "wait" /\ cmd' = [cmd EXCEPT ![c] = Idle] /\ UNCHANGED <<lock, reg, srv, other, launch>>
    BY <1>7 DEF GiveUp, At, Goes
  <2>2. Counters' /\ ServersInPlace(srv')
    BY <1>1, <1>4, <1>7, <2>1 DEF GiveUp, Counters
  <2>3. TypeOK'
    BY <2>1, <2>2, IdleIsCommand DEF Shape, TypeOK, Counters, ServersInPlace
  <2>4. HolderWorks'
    BY <2>1, IdleIsCommand DEF Shape, TypeOK, HolderWorks
  <2>5. InPlace'
    BY <2>1, <2>2, IdleIsCommand DEF Shape, TypeOK, InPlace, ServersInPlace
  <2> QED
    BY <2>3, <2>4, <2>5 DEF Shape
<1>8. ASSUME NEW c \in Commands, KillCommand(c)
      PROVE  Shape'
  <2>1. /\ cmd' = [cmd EXCEPT ![c] = Idle] /\ lock' = (IF lock = c THEN None ELSE lock)
        /\ srv' = (IF At(c, "serving") THEN Killed({cmd[c].child}) ELSE srv)
        /\ UNCHANGED <<reg, other, launch>>
    BY <1>8 DEF KillCommand
  <2>2. Counters' /\ ServersInPlace(srv')
    BY <1>1, <1>4, <1>8, <2>1 DEF KillCommand, Counters
  <2>3. TypeOK'
    BY <2>1, <2>2, IdleIsCommand DEF Shape, TypeOK, Counters, ServersInPlace
  <2>4. HolderWorks'
    BY <2>1, IdleIsCommand, DaemonAssumption DEF Shape, TypeOK, HolderWorks
  <2>5. InPlace'
    BY <2>1, <2>2, IdleIsCommand DEF Shape, TypeOK, InPlace, ServersInPlace
  <2> QED
    BY <2>3, <2>4, <2>5 DEF Shape
<1>9. ASSUME NEW s \in Servers, Bind(s) \/ Dies(s) \/ Crash(s)
      PROVE  Shape'
  <2>1. UNCHANGED <<lock, cmd, reg, other, launch>>
    BY <1>9 DEF Bind, Dies, Crash
  <2>2. Counters'
    BY <1>1, <1>4, <1>9, <2>1 DEF Bind, Dies, Crash, Counters
  <2>3. srv' = Killed({s}) \/ (srv[s].at = "starting" /\ srv' = [srv EXCEPT ![s].at = "serving"])
    BY <1>9 DEF Bind, Dies, Crash
  <2>4. ASSUME srv[s].at = "starting", srv' = [srv EXCEPT ![s].at = "serving"]
        PROVE  ServersInPlace(srv')
    <3> DEFINE up == [srv[s] EXCEPT !.at = "serving"]
    <3>1. srv[s] \in Server /\ srv[s].port \in Ports
      BY <1>1, <2>4, GoneIsServer DEF ServersInPlace
    <3>2. up \in Server /\ up.at = "serving" /\ up.port \in Ports
      BY <3>1 DEF Server
    <3>3. srv' = [srv EXCEPT ![s] = up]
      BY <2>4
    <3> HIDE DEF up
    <3> QED
      BY <1>1, <3>2, <3>3 DEF ServersInPlace
  <2> QED
    BY <1>1, <2>1, <2>2, <2>3, <2>4, OthersMove
<1>10. CASE LaunchReads \/ LaunchWrites \/ OtherBinds \/ OtherLeaves
  <2>1. UNCHANGED <<lock, cmd, srv>>
    BY <1>10 DEF LaunchReads, LaunchWrites, OtherBinds, OtherLeaves
  <2>2. Counters'
    BY <1>1, <1>4, <1>10 DEF LaunchReads, LaunchWrites, OtherBinds, OtherLeaves, Counters
  <2> QED
    BY <1>1, <2>1, <2>2, OthersMove
<1> QED
  BY <1>5, <1>6, <1>7, <1>8, <1>9, <1>10, ShapeOfStep DEF Next

LEMMA ShapeCorrect == Spec => []Shape
<1>1. Init => Shape
  <2> SUFFICES ASSUME Init PROVE Shape
    OBVIOUS
  <2>1. TypeOK
    BY GoneIsServer, IdleIsCommand, DaemonAssumption DEF Init, TypeOK, Registry, NoEntries
  <2>2. HolderWorks
    BY IdleIsCommand, DaemonAssumption DEF Init, HolderWorks
  <2>3. InPlace
    BY IdleIsCommand DEF Init, InPlace
  <2> QED
    BY <2>1, <2>2, <2>3 DEF Shape
<1>2. Shape /\ [Next]_vars => Shape'
  <2>1. Shape /\ UNCHANGED vars => Shape'
    BY DEF Shape, TypeOK, HolderWorks, InPlace, vars
  <2> QED
    BY <2>1, ShapeOfNext
<1> QED
  BY <1>1, <1>2, PTL DEF Spec

\* The processes, the registry and the lock stay well formed whatever commands run.
THEOREM TypeCorrect == Spec => []TypeOK
<1>1. Shape => TypeOK
  BY DEF Shape
<1> QED
  BY <1>1, ShapeCorrect, PTL

-----------------------------------------------------------------------------
(* The account of the servers.                                             *)

\* Servers that serve or may come to.
Alive == {s \in Servers : srv[s].at \in {"starting", "serving"}}
ServingOn(Q) == {s \in Serving : srv[s].port \in Q}

\* The mishaps that are paid for: what a pending launch will undo is not yet.
Allowance == mishaps - (IF launch = None THEN 0 ELSE 1)

\* But for the servers in X, there are no more than mishaps account for.
Within(X) == Cardinality(Alive \ X) <= Allowance

\* What a command knows of the daemon that may be there, by where it is at.
Accounts(c) ==
    /\ At(c, "probe") => Within(ServingOn(Known))
    /\ cmd[c].at \in {"found", "write"} => Within(ServingOn({cmd[c].port}))
    /\ cmd[c].at \in {"choose", "spawn", "fallback", "force"} => Within({})
    /\ cmd[c].at \in {"await", "serving"} => Within({cmd[c].child})
    /\ At(c, "stop") => Within(ServingOn(cmd[c].targets))

Budget ==
    /\ IsFiniteSet(Alive) /\ Cardinality(Alive) <= 1 + Allowance
    /\ lock = None => Within(ServingOn(Known))
    /\ \A c \in Commands : Accounts(c)

IInv == Shape /\ Budget

\* Fewer servers and a larger allowance.
LEMMA FewerFit ==
    ASSUME NEW A, IsFiniteSet(A), NEW B \in SUBSET A, NEW n \in Int, NEW k \in Int,
           Cardinality(A) <= n, n <= k
    PROVE  IsFiniteSet(B) /\ Cardinality(B) <= k
  BY FS_Subset, FS_CardinalityType

\* One that is set aside makes room for one.
LEMMA OneAside ==
    ASSUME NEW A, IsFiniteSet(A), NEW X, NEW s \in A \cap X, NEW n \in Int, Cardinality(A) <= 1 + n
    PROVE  Cardinality(A \ X) <= n
<1>1. IsFiniteSet(A \ {s}) /\ Cardinality(A \ {s}) = Cardinality(A) - 1 /\ Cardinality(A) \in Nat
  BY FS_RemoveElement, FS_CardinalityType
<1>2. A \ X \in SUBSET (A \ {s})
  OBVIOUS
<1> QED
  BY <1>1, <1>2, FewerFit

\* Every step but the spawn of a server only ends servers or lets them bind their port.
Fades ==
    \A s \in Servers :
        \/ srv'[s] = srv[s]
        \/ srv'[s].at \notin {"starting", "serving"}
        \/ srv[s].at = "starting" /\ srv'[s].at = "serving" /\ srv'[s].port = srv[s].port

LEMMA FadesShrinks ==
    ASSUME Fades
    PROVE  /\ Alive' \subseteq Alive
           /\ \A Q : Alive' \ ServingOn(Q)' \subseteq Alive \ ServingOn(Q)
  BY DEF Fades, Alive, ServingOn, Serving

LEMMA KilledFades ==
    ASSUME TypeOK, NEW K, srv' = Killed(K)
    PROVE  Fades /\ Alive' = Alive \ K
<1>1. \A s \in Servers : srv'[s] = IF s \in K THEN Gone ELSE srv[s]
  BY KilledServers
<1>2. Fades
  BY <1>1, GoneIsServer DEF Fades
<1>3. Alive' = Alive \ K
  BY <1>1, GoneIsServer DEF Alive
<1> QED
  BY <1>2, <1>3

LEMMA AllowanceIsInt ==
    ASSUME TypeOK
    PROVE  Allowance \in Int
  BY DaemonAssumption DEF Allowance, TypeOK

\* A mishap, and a launch that writes, pay for one more server.
LEMMA MishapPays ==
    ASSUME IInv, Shape', Fades, Allowance' >= 1 + Allowance
    PROVE  Budget'
<1>1. IsFiniteSet(Alive) /\ Cardinality(Alive) <= 1 + Allowance
  BY DEF IInv, Budget
<1>2. Allowance \in Int /\ Allowance' \in Int
  BY DaemonAssumption DEF Allowance, IInv, Shape, TypeOK
<1>3. \A B \in SUBSET Alive' : IsFiniteSet(B) /\ Cardinality(B) <= Allowance'
  BY <1>1, <1>2, FadesShrinks, FewerFit
<1>4. \A X : Within(X)'
  BY <1>3 DEF Within
<1>5. IsFiniteSet(Alive') /\ Cardinality(Alive') <= 1 + Allowance'
  BY <1>2, <1>3, FS_CardinalityType
<1> QED
  BY <1>4, <1>5 DEF Budget, Accounts

\* The holder of the lock goes on to n, or gives the lock back.
LEMMA HolderAccounts ==
    ASSUME IInv, Shape', NEW c \in Commands, cmd[c].at \notin {"idle", "wait"},
           IsFiniteSet(Alive'), Cardinality(Alive') <= 1 + Allowance',
           \/ Ends(c) /\ Within(ServingOn(Known))'
           \/ (\E n : Goes(c, n)) /\ Accounts(c)'
    PROVE  Budget'
<1>1. lock = c /\ \A d \in Commands \ {c} : cmd[d].at \in {"idle", "wait"}
  BY DEF IInv, Shape, HolderWorks
<1>2. \A d \in Commands \ {c} : cmd'[d] = cmd[d]
  BY DEF Ends, Goes, IInv, Shape, TypeOK
<1>3. \A d \in Commands \ {c} : Accounts(d)'
  BY <1>1, <1>2 DEF Accounts, At
<1>4. CASE Ends(c) /\ Within(ServingOn(Known))'
  <2>1. cmd'[c].at = "idle"
    BY <1>4, IdleIsCommand DEF Ends, IInv, Shape, TypeOK
  <2>2. Accounts(c)'
    BY <2>1 DEF Accounts, At
  <2> QED
    BY <1>3, <1>4, <2>2 DEF Budget
<1>5. CASE (\E n : Goes(c, n)) /\ Accounts(c)'
  <2>1. lock' # None
    BY <1>1, <1>5, DaemonAssumption DEF Goes
  <2> QED
    BY <1>3, <1>5, <2>1 DEF Budget
<1> QED
  BY <1>4, <1>5

\* Fewer servers are left over, and the allowance is what it was.
LEMMA Shrinks ==
    ASSUME IInv, Fades, Allowance' = Allowance
    PROVE  /\ IsFiniteSet(Alive') /\ Cardinality(Alive') <= 1 + Allowance'
           /\ \A X, Y : Within(X) /\ Alive' \ Y \subseteq Alive \ X =>
                          Cardinality(Alive' \ Y) <= Allowance'
           /\ \A Q : Within(ServingOn(Q)) => Cardinality(Alive' \ ServingOn(Q)') <= Allowance'
<1>1. IsFiniteSet(Alive) /\ Cardinality(Alive) <= 1 + Allowance /\ Allowance \in Int
  BY AllowanceIsInt DEF IInv, Shape, Budget
<1>2. IsFiniteSet(Alive') /\ Cardinality(Alive') <= 1 + Allowance'
  BY <1>1, FadesShrinks, FewerFit
<1>3. ASSUME NEW X, NEW Y, Within(X), Alive' \ Y \subseteq Alive \ X
      PROVE  Cardinality(Alive' \ Y) <= Allowance'
  <2>1. IsFiniteSet(Alive \ X)
    BY <1>1, FS_Subset
  <2> QED
    BY <1>1, <1>3, <2>1, FewerFit DEF Within
<1> QED
  BY <1>2, <1>3, FadesShrinks

\* A command that holds the lock spends nothing that a mishap did not pay for.
LEMMA BudgetOfStep ==
    ASSUME IInv, Shape', NEW c \in Commands, Step(c)
    PROVE  Budget'
<1> DEFINE m == cmd[c]
<1>1. TypeOK /\ m \in Command /\ CommandInPlace(m) /\ ServersInPlace(srv) /\ Accounts(c)
  BY ShapeParts DEF IInv, Budget, Shape
<1>2. IsFiniteSet(Alive) /\ Cardinality(Alive) <= 1 + Allowance /\ Allowance \in Int
  BY AllowanceIsInt DEF IInv, Shape, Budget
<1>3. UNCHANGED srv => Fades
  BY DEF Fades
<1>4. Fine /\ UNCHANGED launch => Allowance' = Allowance
  BY DEF Fine, Allowance
<1>5. Mishap /\ UNCHANGED launch => Allowance' = 1 + Allowance
  BY <1>2, DaemonAssumption DEF Mishap, Allowance, IInv, Shape, TypeOK
<1>6. Fades /\ Mishap /\ UNCHANGED launch => Budget'
  BY <1>2, <1>5, MishapPays
<1>7. \A n : Goes(c, n) => cmd'[c] = n
  BY DEF Goes, IInv, Shape, TypeOK
<1> HIDE DEF m
<1>8. ASSUME NEW n, Goes(c, n), m.at \notin {"idle", "wait"}, Fades, Fine, UNCHANGED launch, Accounts(c)'
      PROVE  Budget'
  BY <1>4, <1>8, HolderAccounts, Shrinks DEF m
<1>9. ASSUME Ends(c), m.at \notin {"idle", "wait"}, Fades, Fine, UNCHANGED launch,
             NEW X, Within(X), Alive' \ ServingOn(Known)' \subseteq Alive \ X
      PROVE  Budget'
  <2>1. Within(ServingOn(Known))'
    BY <1>4, <1>9, Shrinks DEF Within
  <2> QED
    BY <1>4, <1>9, <2>1, HolderAccounts, Shrinks DEF m
<1>10. ASSUME NEW p \in Ports, NEW s \in Servers \cup {None}, reg' = Upserted(p, s), UNCHANGED srv
       PROVE  ServingOn({p}) \subseteq ServingOn(Known)'
  <2>1. [port |-> p, pid |-> s] \in reg'.entries
    BY <1>10 DEF Upserted, OneFor
  <2>2. p \in Recorded'
    BY <2>1 DEF Recorded
  <2>3. p \in Known'
    BY <2>2 DEF Known
  <2> QED
    BY <1>10, <2>3 DEF ServingOn, Serving
<1>11. CASE Probe(c)
  <2>1. m.at = "probe" /\ UNCHANGED <<reg, srv, other, launch>>
    BY <1>11 DEF Probe, At, m
  <2>2. PICK found \in SUBSET (Known \cap Live) :
          /\ Reusable(found)
          /\ Goes(c, IF found = {} THEN [m EXCEPT !.at = "choose"]
                     ELSE [m EXCEPT !.at = "found", !.port = Min(found)])
    BY <1>11 DEF Probe, m
  <2>3. CASE found # Known \cap Live
    BY <1>3, <1>6, <2>1, <2>2, <2>3 DEF Reusable
  <2>4. CASE found = Known \cap Live /\ found = {}
    <3>1. Fine
      BY <2>2, <2>4 DEF Reusable
    <3>2. ServingOn(Known) = {}
      BY <2>4 DEF Live, ServingOn
    <3>3. Within({})
      BY <1>1, <2>1, <3>2 DEF Accounts, At, m
    <3>4. cmd'[c].at = "choose"
      BY <1>1, <1>7, <2>2, <2>4 DEF Command
    <3>5. Cardinality(Alive' \ {}) <= Allowance'
      BY <1>3, <1>4, <2>1, <3>1, <3>3, Shrinks, FadesShrinks
    <3>6. Accounts(c)'
      BY <3>4, <3>5 DEF Accounts, At, Within
    <3> QED
      BY <1>3, <1>8, <2>1, <2>2, <3>1, <3>6
  <2>5. CASE found = Known \cap Live /\ found # {}
    <3> DEFINE p == Min(found)
    <3>1. Fine
      BY <2>2, <2>5 DEF Reusable
    <3>2. p \in Live
      BY <1>1, <2>2, <2>5, PortsKnown DEF IInv, Shape
    <3>3. PICK s \in Serving : srv[s].port = p
      BY <3>2 DEF Live
    <3> HIDE DEF p
    <3>4. s \in Alive \cap ServingOn({p})
      BY <3>3 DEF ServingOn, Serving, Alive
    <3>5. Within(ServingOn({p}))
      BY <1>2, <3>4, OneAside DEF Within
    <3>6. cmd'[c].at = "found" /\ cmd'[c].port = p
      BY <1>1, <1>7, <2>2, <2>5 DEF Command, p
    <3>7. Cardinality(Alive' \ ServingOn({p})') <= Allowance'
      BY <1>3, <1>4, <2>1, <3>1, <3>5, Shrinks
    <3>8. Accounts(c)'
      BY <3>6, <3>7 DEF Accounts, At, Within
    <3> QED
      BY <1>3, <1>8, <2>1, <2>2, <3>1, <3>8
  <2> QED
    BY <2>3, <2>4, <2>5
<1>12. CASE Reuse(c)
  <2>1. m.at = "found" /\ m.port \in Ports /\ Ends(c) /\ reg' = Upserted(m.port, None)
        /\ Fine /\ UNCHANGED <<srv, other, launch>>
    BY <1>1, <1>12 DEF Reuse, At, CommandInPlace, m
  <2>2. Within(ServingOn({m.port}))
    BY <1>1, <2>1 DEF Accounts, m
  <2>3. Alive' \ ServingOn(Known)' \subseteq Alive \ ServingOn({m.port})
    BY <1>3, <1>10, <2>1, FadesShrinks
  <2> QED
    BY <1>3, <1>9, <2>1, <2>2, <2>3
<1>13. CASE Replace(c)
  <2> DEFINE n == [m EXCEPT !.at = "choose", !.port = None]
  <2>1. m.at = "found" /\ Goes(c, n) /\ srv' = Killed(On(m.port)) /\ Fine /\ UNCHANGED launch
    BY <1>13 DEF Replace, At, m
  <2>2. Within(ServingOn({m.port}))
    BY <1>1, <2>1 DEF Accounts, m
  <2>3. Fades /\ Alive' = Alive \ On(m.port)
    BY <1>1, <2>1, KilledFades
  <2>4. Alive' \ {} \subseteq Alive \ ServingOn({m.port})
    BY <2>3 DEF ServingOn, Serving, On
  <2>5. Cardinality(Alive' \ {}) <= Allowance'
    BY <1>4, <2>1, <2>2, <2>3, <2>4, Shrinks
  <2>6. cmd'[c].at = "choose"
    BY <1>1, <1>7, <2>1 DEF Command
  <2>7. Accounts(c)'
    BY <2>5, <2>6 DEF Accounts, At, Within
  <2> QED
    BY <1>8, <2>1, <2>3, <2>7
<1>14. CASE Choose(c)
  <2>1. m.at = "choose" /\ Fine /\ UNCHANGED <<reg, srv, other, launch>>
    BY <1>14 DEF Choose, At, m
  <2>2. PICK p : Ends(c) \/ Goes(c, [m EXCEPT !.at = "spawn", !.port = p])
    BY <1>14, Zenon DEF Choose, m
  <2>3. Within({})
    BY <1>1, <2>1 DEF Accounts, m
  <2>4. ASSUME Goes(c, [m EXCEPT !.at = "spawn", !.port = p])
        PROVE  Accounts(c)'
    <3>1. cmd'[c].at = "spawn"
      BY <1>1, <1>7, <2>4 DEF Command
    <3>2. Cardinality(Alive' \ {}) <= Allowance'
      BY <1>3, <1>4, <2>1, <2>3, Shrinks, FadesShrinks
    <3> QED
      BY <3>1, <3>2 DEF Accounts, At, Within
  <2>5. Alive' \ ServingOn(Known)' \subseteq Alive \ {}
    BY <1>3, <2>1, FadesShrinks
  <2> QED
    BY <1>3, <1>8, <1>9, <2>1, <2>2, <2>3, <2>4, <2>5
<1>15. CASE Spawn(c)
  <2> DEFINE p == m.port
             cleared == IF Forced(c) THEN Killed(On(p)) ELSE srv
             fresh == {s \in Servers : /\ cleared[s] = Gone
                                       /\ \A e \in reg.entries : e.pid # s
                                       /\ \A d \in Commands : cmd[d].child # s}
             child == CHOOSE s \in fresh : TRUE
             young == [at |-> "starting", port |-> p]
             fore == [m EXCEPT !.at = "serving", !.child = child]
             back == [m EXCEPT !.at = "await", !.child = child]
  <2>1. /\ m.at = "spawn" /\ fresh # {}
        /\ srv' = [cleared EXCEPT ![child] = young]
        /\ Goes(c, fore) \/ Goes(c, back)
        /\ Fine /\ UNCHANGED launch
    BY <1>15, Zenon DEF Spawn, At, m
  <2>2. child \in Servers
    BY <2>1
  <2>3. /\ fore.at = "serving" /\ fore.child = child
        /\ back.at = "await" /\ back.child = child
    BY <1>1 DEF Command
  <2>4. \A s \in Servers : cleared[s] = Gone \/ cleared[s] = srv[s]
    BY <1>1, KilledServers
  <2>5. cleared \in [Servers -> Server]
    BY <1>1, KilledServers DEF ServersInPlace
  <2> HIDE DEF fore, back, child, cleared, fresh
  <2>6. \A s \in Servers \ {child} : srv'[s] = Gone \/ srv'[s] = srv[s]
    BY <2>1, <2>2, <2>4, <2>5
  <2>7. Alive' \ {child} \subseteq Alive
    BY <2>6, GoneIsServer DEF Alive
  <2>8. Cardinality(Alive) <= Allowance
    <3>1. Within({})
      BY <1>1, <2>1 DEF Accounts, m
    <3>2. Alive \ {} = Alive
      OBVIOUS
    <3> QED
      BY <3>1, <3>2 DEF Within
  <2>9. Allowance' = Allowance
    BY <1>4, <2>1
  <2>10. IsFiniteSet(Alive' \ {child}) /\ Cardinality(Alive' \ {child}) <= Allowance'
    BY <1>2, <2>7, <2>8, <2>9, FewerFit
  <2>11. IsFiniteSet(Alive') /\ Cardinality(Alive') <= 1 + Allowance'
    <3> DEFINE B == Alive' \ {child}
    <3>1. IsFiniteSet(B) /\ Cardinality(B) <= Allowance' /\ Cardinality(B) \in Nat
      BY <2>10, FS_CardinalityType
    <3>2. Alive' \in SUBSET (B \cup {child})
      OBVIOUS
    <3> HIDE DEF B
    <3>3. /\ IsFiniteSet(B \cup {child})
          /\ Cardinality(B \cup {child}) \in {Cardinality(B), Cardinality(B) + 1}
      BY <3>1, FS_AddElement
    <3>4. Allowance' \in Int /\ Cardinality(B \cup {child}) <= 1 + Allowance'
      BY <1>2, <2>9, <3>1, <3>3
    <3> QED
      BY <3>2, <3>3, <3>4, FewerFit
  <2>12. cmd'[c].at \in {"serving", "await"} /\ cmd'[c].child = child
    BY <1>7, <2>1, <2>3
  <2>13. Accounts(c)'
    BY <2>10, <2>12 DEF Accounts, At, Within
  <2> QED
    BY <2>1, <2>11, <2>13, HolderAccounts DEF m
<1>16. CASE Answers(c)
  <2> DEFINE n == [m EXCEPT !.at = "write"]
  <2>1. m.at = "await" /\ m.port \in Live /\ Goes(c, n) /\ Fine /\ UNCHANGED <<reg, srv, other, launch>>
    BY <1>16 DEF Answers, At, m
  <2>2. PICK p : p = m.port
    OBVIOUS
  <2>3. PICK s \in Serving : srv[s].port = p
    BY <2>1, <2>2 DEF Live
  <2>4. s \in Alive \cap ServingOn({p})
    BY <2>3 DEF ServingOn, Serving, Alive
  <2>5. Within(ServingOn({p}))
    BY <1>2, <2>4, OneAside DEF Within
  <2>6. cmd'[c].at = "write" /\ cmd'[c].port = p
    BY <1>1, <1>7, <2>1, <2>2 DEF Command
  <2>7. Cardinality(Alive' \ ServingOn({p})') <= Allowance'
    BY <1>3, <1>4, <2>1, <2>5, Shrinks
  <2>8. Accounts(c)'
    BY <2>6, <2>7 DEF Accounts, At, Within
  <2> QED
    BY <1>3, <1>8, <2>1, <2>8
<1>17. CASE NoAnswer(c)
  <2> DEFINE s == m.child
             again == [m EXCEPT !.at = "spawn", !.child = None, !.attempt = 1]
             back == [m EXCEPT !.at = "fallback", !.child = None]
  <2>1. /\ m.at = "await"
        /\ \/ srv[s] = Gone /\ Fine /\ UNCHANGED srv
           \/ Mishap /\ srv' = [srv EXCEPT ![s].at = "dying"]
        /\ Goes(c, again) \/ Goes(c, back) \/ Ends(c)
        /\ UNCHANGED <<reg, other, launch>>
    BY <1>17, Zenon DEF NoAnswer, At, m
  <2>2. again.at = "spawn" /\ back.at = "fallback"
    BY <1>1 DEF Command
  <2> HIDE DEF again, back
  <2>3. CASE Mishap /\ srv' = [srv EXCEPT ![s].at = "dying"]
    <3>1. Fades
      BY <1>1, <2>3 DEF Fades, ServersInPlace, Server
    <3> QED
      BY <1>6, <2>1, <2>3, <3>1
  <2>4. CASE srv[s] = Gone /\ Fine /\ UNCHANGED srv
    <3>1. Within({s})
      BY <1>1, <2>1 DEF Accounts, m
    <3>2. Alive' \ {} \subseteq Alive \ {s}
      BY <1>3, <2>4, GoneIsServer, FadesShrinks DEF Alive
    <3>3. Cardinality(Alive' \ {}) <= Allowance'
      BY <1>3, <1>4, <2>1, <2>4, <3>1, <3>2, Shrinks
    <3>4. CASE Ends(c)
      BY <1>3, <1>9, <2>1, <2>4, <3>1, <3>2, <3>4
    <3>5. CASE Goes(c, again) \/ Goes(c, back)
      <4>1. cmd'[c].at \in {"spawn", "fallback"}
        BY <1>7, <2>2, <3>5
      <4>2. Accounts(c)'
        BY <3>3, <4>1 DEF Accounts, At, Within
      <4> QED
        BY <1>3, <1>8, <2>1, <2>4, <3>5, <4>2
    <3> QED
      BY <2>1, <3>4, <3>5
  <2> QED
    BY <2>1, <2>3, <2>4
<1>18. CASE Write(c)
  <2>1. m.at = "write" /\ m.port \in Ports /\ m.child \in Servers /\ Ends(c)
        /\ reg' = Upserted(m.port, m.child) /\ Fine /\ UNCHANGED <<srv, other, launch>>
    BY <1>1, <1>18 DEF Write, At, CommandInPlace, m
  <2>2. Within(ServingOn({m.port}))
    BY <1>1, <2>1 DEF Accounts, m
  <2>3. Alive' \ ServingOn(Known)' \subseteq Alive \ ServingOn({m.port})
    BY <1>3, <1>10, <2>1, FadesShrinks
  <2> QED
    BY <1>3, <1>9, <2>1, <2>2, <2>3
<1>19. CASE Fallback(c)
  <2>1. m.at = "fallback" /\ Ends(c) /\ (Fine \/ Mishap) /\ UNCHANGED <<srv, other, launch>>
    BY <1>19 DEF Fallback, Reusable, At, m
  <2>2. Within({})
    BY <1>1, <2>1 DEF Accounts, m
  <2>3. Alive' \ ServingOn(Known)' \subseteq Alive \ {}
    BY <1>3, <2>1, FadesShrinks
  <2> QED
    BY <1>3, <1>6, <1>9, <2>1, <2>2, <2>3
<1>20. CASE ForegroundEnds(c)
  <2>1. m.at = "serving" /\ srv[m.child] = Gone /\ Ends(c) /\ Fine /\ UNCHANGED <<reg, srv, other, launch>>
    BY <1>20 DEF ForegroundEnds, At, m
  <2>2. Within({m.child})
    BY <1>1, <2>1 DEF Accounts, m
  <2>3. Alive' \ ServingOn(Known)' \subseteq Alive \ {m.child}
    BY <1>3, <2>1, FadesShrinks, GoneIsServer DEF Alive
  <2> QED
    BY <1>3, <1>9, <2>1, <2>2, <2>3
<1>21. CASE StopPort(c)
  <2>1. PICK p \in m.targets :
          srv' = Killed(Victims(p)) /\ Goes(c, [m EXCEPT !.targets = @ \ {p}])
    BY <1>21 DEF StopPort, m
  <2>2. m.at = "stop" /\ Fine /\ UNCHANGED <<reg, launch>>
    BY <1>21 DEF StopPort, At, m
  <2>3. PICK targets : targets = m.targets
    OBVIOUS
  <2>4. Within(ServingOn(targets))
    BY <1>1, <2>2, <2>3 DEF Accounts, At, m
  <2>5. Fades /\ Alive' = Alive \ Victims(p)
    BY <1>1, <2>1, KilledFades
  <2>6. \A Q : Alive' \ ServingOn(Q)' \subseteq Alive \ ServingOn(Q)
    BY <2>5, FadesShrinks
  <2>7. ServingOn({p}) \cap Alive' = {}
    BY <2>5 DEF Victims, On, ServingOn, Serving
  <2>8. Alive' \ ServingOn(targets \ {p})' \subseteq Alive \ ServingOn(targets)
    <3>1. ServingOn(targets) \subseteq ServingOn(targets \ {p}) \cup ServingOn({p})
      BY DEF ServingOn
    <3>2. Alive' \subseteq Alive
      BY <2>5
    <3>3. Alive' \ ServingOn(targets \ {p})' \subseteq Alive \ ServingOn(targets \ {p})
      BY <2>6
    <3> QED
      BY <2>7, <3>1, <3>2, <3>3
  <2>9. Cardinality(Alive' \ ServingOn(targets \ {p})') <= Allowance'
    BY <1>4, <2>2, <2>4, <2>5, <2>8, Shrinks
  <2>10. cmd'[c].at = "stop" /\ cmd'[c].targets = targets \ {p}
    BY <1>1, <1>7, <2>1, <2>2, <2>3 DEF Command
  <2>11. Accounts(c)'
    BY <2>9, <2>10 DEF Accounts, At, Within
  <2> QED
    BY <1>8, <2>1, <2>2, <2>5, <2>11
<1>22. CASE Clear(c)
  <2> DEFINE n == [m EXCEPT !.at = "force"]
  <2>1. m.at = "stop" /\ m.targets = {} /\ (Goes(c, n) \/ Ends(c)) /\ Fine /\ UNCHANGED <<srv, other, launch>>
    BY <1>22 DEF Clear, At, m
  <2>2. Within({})
    <3>1. ServingOn({}) = {}
      BY DEF ServingOn
    <3> QED
      BY <1>1, <2>1, <3>1 DEF Accounts, At, m
  <2>3. Alive' \ {} \subseteq Alive \ {}
    BY <1>3, <2>1, FadesShrinks
  <2>4. CASE Goes(c, n)
    <3>1. cmd'[c].at = "force"
      BY <1>1, <1>7, <2>4 DEF Command
    <3>2. Cardinality(Alive' \ {}) <= Allowance'
      BY <1>3, <1>4, <2>1, <2>2, <2>3, Shrinks
    <3>3. Accounts(c)'
      BY <3>1, <3>2 DEF Accounts, At, Within
    <3> QED
      BY <1>3, <1>8, <2>1, <2>4, <3>3
  <2>5. CASE Ends(c)
    BY <1>3, <1>9, <2>1, <2>2, <2>3, <2>5
  <2> QED
    BY <2>1, <2>4, <2>5
<1>23. CASE ClearBase(c)
  <2> DEFINE n == [m EXCEPT !.at = "choose"]
  <2>1. m.at = "force" /\ Goes(c, n) /\ srv' = Killed(On(BasePort)) /\ Fine /\ UNCHANGED launch
    BY <1>23 DEF ClearBase, At, m
  <2>2. Within({})
    BY <1>1, <2>1 DEF Accounts, m
  <2>3. Fades /\ Alive' = Alive \ On(BasePort)
    BY <1>1, <2>1, KilledFades
  <2>4. Cardinality(Alive' \ {}) <= Allowance'
    BY <1>4, <2>1, <2>2, <2>3, Shrinks
  <2>5. cmd'[c].at = "choose"
    BY <1>1, <1>7, <2>1 DEF Command
  <2>6. Accounts(c)'
    BY <2>4, <2>5 DEF Accounts, At, Within
  <2> QED
    BY <1>8, <2>1, <2>3, <2>6
<1> QED
  BY <1>11, <1>12, <1>13, <1>14, <1>15, <1>16, <1>17, <1>18, <1>19, <1>20, <1>21, <1>22, <1>23
     DEF Step

\* What the holder of the lock has no part in.
LEMMA BudgetStays ==
    ASSUME IInv, Fades, Allowance' = Allowance, UNCHANGED <<lock, reg>>,
           \A c \in Commands : cmd'[c] = cmd[c] \/ cmd'[c].at \in {"idle", "wait"}
    PROVE  Budget'
<1>1. /\ IsFiniteSet(Alive') /\ Cardinality(Alive') <= 1 + Allowance'
      /\ \A Q : Within(ServingOn(Q)) => Cardinality(Alive' \ ServingOn(Q)') <= Allowance'
      /\ \A X : Within(X) => Cardinality(Alive' \ X) <= Allowance'
  BY Shrinks, FadesShrinks
<1>2. Known' = Known
  BY DEF Known, Recorded
<1>3. lock' = None => Within(ServingOn(Known))'
  <2>1. PICK Q : Q = Known
    OBVIOUS
  <2> QED
    BY <1>1, <1>2, <2>1 DEF IInv, Budget, Within
<1>4. ASSUME NEW c \in Commands
      PROVE  Accounts(c)'
  <2>1. CASE cmd'[c].at \in {"idle", "wait"}
    BY <2>1 DEF Accounts, At
  <2>2. CASE cmd'[c] = cmd[c]
    <3>1. PICK Q, m : Q = Known /\ m = cmd[c]
      OBVIOUS
    <3>2. /\ m.at = "probe" => Within(ServingOn(Q))
          /\ m.at \in {"found", "write"} => Within(ServingOn({m.port}))
          /\ m.at \in {"choose", "spawn", "fallback", "force"} => Within({})
          /\ m.at \in {"await", "serving"} => Within({m.child})
          /\ m.at = "stop" => Within(ServingOn(m.targets))
      BY <3>1 DEF IInv, Budget, Accounts, At
    <3>3. /\ m.at = "probe" => Within(ServingOn(Q))'
          /\ m.at \in {"found", "write"} => Within(ServingOn({m.port}))'
          /\ m.at \in {"choose", "spawn", "fallback", "force"} => Within({})'
          /\ m.at \in {"await", "serving"} => Within({m.child})'
          /\ m.at = "stop" => Within(ServingOn(m.targets))'
      BY <1>1, <3>2 DEF Within
    <3>4. cmd'[c] = m /\ Known' = Q
      BY <1>2, <2>2, <3>1
    <3> QED
      BY <3>3, <3>4 DEF Accounts, At
  <2> QED
    BY <2>1, <2>2
<1> QED
  BY <1>1, <1>3, <1>4 DEF Budget

LEMMA BudgetOfNext ==
    ASSUME IInv, Next, Shape'
    PROVE  Budget'
<1>1. TypeOK /\ (\A c \in Commands : cmd[c] \in Command) /\ ServersInPlace(srv)
  BY ShapeParts DEF IInv, Shape
<1>2. Fine /\ UNCHANGED launch => Allowance' = Allowance
  BY DEF Fine, Allowance
<1>3. Event /\ UNCHANGED launch => Allowance' = Allowance
  BY DEF Event, Allowance
<1>4. Mishap /\ UNCHANGED launch => Allowance' >= 1 + Allowance
  BY <1>1, DaemonAssumption DEF Mishap, Allowance, TypeOK
<1>5. UNCHANGED srv => Fades
  BY DEF Fades
<1>6. ASSUME NEW c \in Commands, NEW kind \in Kinds, Begin(c, kind) \/ GiveUp(c)
      PROVE  Budget'
  <2>1. UNCHANGED <<lock, reg, srv, launch>> /\ (Fine \/ Event)
    BY <1>6 DEF Begin, GiveUp, Goes
  <2>2. cmd'[c].at \in {"idle", "wait"}
    <3>1. [Idle EXCEPT !.kind = kind, !.at = "wait"].at = "wait"
      BY DEF Idle
    <3> QED
      BY <1>1, <1>6, <3>1, IdleIsCommand DEF Begin, GiveUp, Goes, TypeOK
  <2>3. \A d \in Commands : cmd'[d] = cmd[d] \/ cmd'[d].at \in {"idle", "wait"}
    BY <1>1, <1>6, <2>2 DEF Begin, GiveUp, Goes, TypeOK
  <2> QED
    BY <1>2, <1>3, <1>5, <2>1, <2>3, BudgetStays
<1>7. ASSUME NEW c \in Commands, Acquire(c)
      PROVE  Budget'
  <2>1. lock = None /\ lock' = c /\ Fine /\ UNCHANGED <<reg, srv, other, launch>>
    BY <1>7 DEF Acquire
  <2>2. PICK Q : Q = Known
    OBVIOUS
  <2>3. Known' = Q
    BY <2>1, <2>2 DEF Known, Recorded
  <2>4. Within(ServingOn(Q))
    BY <2>1, <2>2 DEF IInv, Budget
  <2>5. IsFiniteSet(Alive') /\ Cardinality(Alive') <= 1 + Allowance' /\ Within(ServingOn(Q))'
    BY <1>2, <1>5, <2>1, <2>4, Shrinks DEF Within
  <2>6. cmd'[c].at = "probe" \/ (cmd'[c].at = "stop" /\ cmd'[c].targets = Q)
    BY <1>1, <1>7, <2>2 DEF Acquire, TypeOK, Command
  <2>7. Accounts(c)'
    BY <2>3, <2>5, <2>6 DEF Accounts, At
  <2>8. ASSUME NEW d \in Commands \ {c}
        PROVE  Accounts(d)'
    <3>1. cmd'[d] = cmd[d] /\ cmd[d].at \in {"idle", "wait"}
      BY <1>1, <1>7, <2>1, DaemonAssumption DEF Acquire, TypeOK, IInv, Shape, HolderWorks
    <3> QED
      BY <3>1 DEF Accounts, At
  <2>9. lock' # None
    BY <2>1, DaemonAssumption
  <2> QED
    BY <2>5, <2>7, <2>8, <2>9 DEF Budget
<1>8. ASSUME NEW c \in Commands, KillCommand(c)
      PROVE  Budget'
  <2>1. Mishap /\ UNCHANGED launch /\ (srv' = Killed({cmd[c].child}) \/ srv' = srv)
    BY <1>8 DEF KillCommand
  <2> QED
    BY <1>1, <1>4, <1>5, <2>1, KilledFades, MishapPays
<1>9. ASSUME NEW s \in Servers, Bind(s) \/ Dies(s) \/ Crash(s)
      PROVE  Budget'
  <2>1. UNCHANGED <<lock, cmd, reg, launch>> /\ (Fine \/ Event)
    BY <1>9 DEF Bind, Dies, Crash
  <2>2. srv' = Killed({s}) \/ (srv[s].at = "starting" /\ srv' = [srv EXCEPT ![s].at = "serving"])
    BY <1>9 DEF Bind, Dies, Crash
  <2>3. Fades
    <3>1. CASE srv' = Killed({s})
      BY <1>1, <3>1, KilledFades
    <3>2. CASE srv[s].at = "starting" /\ srv' = [srv EXCEPT ![s].at = "serving"]
      BY <1>1, <3>2 DEF Fades, ServersInPlace, Server
    <3> QED
      BY <2>2, <3>1, <3>2
  <2> QED
    BY <1>2, <1>3, <2>1, <2>3, BudgetStays
<1>10. CASE LaunchReads
  <2>1. Mishap /\ launch = None /\ UNCHANGED <<lock, reg, srv, cmd>>
    BY <1>10 DEF LaunchReads
  <2>2. Allowance' = Allowance \/ Allowance' >= 1 + Allowance
    BY <1>1, <2>1, DaemonAssumption DEF Mishap, Allowance, TypeOK
  <2> QED
    BY <1>5, <2>1, <2>2, BudgetStays, MishapPays
<1>11. CASE LaunchWrites
  <2>1. Allowance' >= 1 + Allowance /\ UNCHANGED srv
    BY <1>1, <1>11, DaemonAssumption DEF LaunchWrites, Fine, Allowance, TypeOK
  <2> QED
    BY <1>5, <2>1, MishapPays
<1>12. CASE OtherBinds \/ OtherLeaves
  <2>1. UNCHANGED <<lock, reg, srv, cmd, launch>> /\ (Fine \/ Event)
    BY <1>12 DEF OtherBinds, OtherLeaves
  <2> QED
    BY <1>2, <1>3, <1>5, <2>1, BudgetStays
<1> QED
  BY <1>6, <1>7, <1>8, <1>9, <1>10, <1>11, <1>12, BudgetOfStep DEF Next, Kinds

LEMMA InvariantCorrect == Spec => []IInv
<1>1. Init => Budget
  <2> SUFFICES ASSUME Init PROVE Budget
    OBVIOUS
  <2>1. Alive = {}
    BY GoneIsServer DEF Init, Alive
  <2>2. Allowance = 0
    BY DEF Init, Allowance
  <2>3. IsFiniteSet(Alive) /\ Cardinality(Alive) <= 1 + Allowance
    BY <2>1, <2>2, FS_EmptySet
  <2>4. \A X : Within(X)
    <3>1. \A X : Alive \ X = {}
      BY <2>1
    <3> QED
      BY <2>2, <3>1, FS_EmptySet DEF Within
  <2> QED
    BY <2>3, <2>4 DEF Budget, Accounts
<1>2. Shape /\ Shape' /\ Budget /\ [Next]_vars => Budget'
  <2>1. Shape /\ Budget /\ UNCHANGED vars => Budget'
    <3> SUFFICES ASSUME Shape, Budget, UNCHANGED vars PROVE Budget'
      OBVIOUS
    <3>1. Fades /\ Allowance' = Allowance /\ UNCHANGED <<lock, reg, cmd>>
      BY DEF vars, Fades, Allowance
    <3> QED
      BY <3>1, BudgetStays DEF IInv
  <2> QED
    BY <2>1, BudgetOfNext DEF IInv
<1> QED
  BY <1>1, <1>2, ShapeCorrect, PTL DEF Spec, IInv

\* There is one daemon, and at most one more for each mishap.
THEOREM OneDaemonCorrect == Spec => []OneDaemon
<1>1. IInv => OneDaemon
  <2> SUFFICES ASSUME IInv PROVE OneDaemon
    OBVIOUS
  <2>1. IsFiniteSet(Alive) /\ Cardinality(Alive) <= 1 + Allowance /\ Allowance \in Int
    BY AllowanceIsInt DEF IInv, Shape, Budget
  <2>2. Allowance <= mishaps /\ mishaps \in Int
    BY DaemonAssumption DEF IInv, Shape, TypeOK, Allowance
  <2>3. Serving \in SUBSET Alive
    BY DEF Serving, Alive
  <2> QED
    BY <2>1, <2>2, <2>3, FewerFit DEF OneDaemon
<1> QED
  BY <1>1, InvariantCorrect, PTL

\* When nobody holds the lock, pid.json and the configured port tell of all daemons, but for
\* one for each mishap.
THEOREM DaemonsAreKnownCorrect == Spec => []DaemonsAreKnown
<1>1. IInv => DaemonsAreKnown
  <2> SUFFICES ASSUME IInv, lock = None PROVE DaemonsAreKnown
    BY DEF DaemonsAreKnown
  <2> DEFINE hidden == {s \in Servers : srv[s].at = "starting"} \cup Unrecorded
  <2>1. IsFiniteSet(Alive) /\ Within(ServingOn(Known)) /\ Allowance \in Int
    BY AllowanceIsInt DEF IInv, Shape, Budget
  <2>2. IsFiniteSet(Alive \ ServingOn(Known))
    BY <2>1, FS_Subset
  <2>3. Allowance <= mishaps /\ mishaps \in Int
    BY DaemonAssumption DEF IInv, Shape, TypeOK, Allowance
  <2>4. hidden \in SUBSET (Alive \ ServingOn(Known))
    BY DEF Unrecorded, Serving, ServingOn, Alive
  <2>5. Cardinality(hidden) <= mishaps
    BY <2>1, <2>2, <2>3, <2>4, FewerFit DEF Within
  <2> QED
    BY <2>5 DEF DaemonsAreKnown
<1> QED
  BY <1>1, InvariantCorrect, PTL

\* A stop that comes to its end leaves no daemon, but for one for each mishap.
THEOREM StopMeansStoppedCorrect == Spec => StopMeansStopped
<1> DEFINE Stopped(c) == cmd[c].kind = "stop" /\ cmd[c].at = "stop" /\ cmd'[c].at = "idle"
                           /\ mishaps' = mishaps
           Promise == \A c \in Commands : Stopped(c) => Cardinality(Serving) <= mishaps
<1>1. IInv /\ [Next]_vars => [Promise]_vars
  <2> SUFFICES ASSUME IInv, Next, NEW c \in Commands, Stopped(c)
               PROVE  Cardinality(Serving) <= mishaps
    OBVIOUS
  <2>1. /\ TypeOK /\ Accounts(c) /\ IsFiniteSet(Alive) /\ Allowance \in Int
        /\ mishaps \in Int /\ Allowance <= mishaps
    BY AllowanceIsInt, DaemonAssumption DEF IInv, Shape, Budget, TypeOK, Allowance
  <2>2. cmd'[c].at # cmd[c].at
    OBVIOUS
  <2>3. ASSUME NEW d \in Commands, NEW kind \in Kinds,
               Begin(d, kind) \/ Acquire(d) \/ GiveUp(d) \/ KillCommand(d)
        PROVE  FALSE
    <3>1. d = c
      BY <2>1, <2>2, <2>3 DEF Begin, Acquire, GiveUp, KillCommand, Goes, TypeOK
    <3> QED
      BY <2>1, <2>3, <3>1 DEF Begin, Acquire, GiveUp, KillCommand, At, Mishap
  <2>4. ASSUME NEW d \in Commands, Step(d)
        PROVE  StopPort(c) \/ Clear(c)
    <3>1. Ends(d) \/ \E n : Goes(d, n)
      BY <2>4, Zenon DEF Step, Probe, Reuse, Replace, Choose, Spawn, Answers, NoAnswer, Write,
         Fallback, ForegroundEnds, StopPort, Clear, ClearBase
    <3>2. d = c
      BY <2>1, <2>2, <3>1 DEF Ends, Goes, TypeOK
    <3> QED
      BY <2>4, <3>2 DEF Step, Probe, Reuse, Replace, Choose, Spawn, Answers, NoAnswer, Write,
         Fallback, ForegroundEnds, ClearBase, At
  <2>5. ~StopPort(c)
    <3> SUFFICES ASSUME NEW p, Goes(c, [cmd[c] EXCEPT !.targets = @ \ {p}]) PROVE FALSE
      BY DEF StopPort
    <3>1. cmd[c] \in Command /\ cmd'[c] = [cmd[c] EXCEPT !.targets = @ \ {p}]
      BY <2>1 DEF Goes, TypeOK
    <3>2. cmd'[c].at = cmd[c].at
      BY <3>1 DEF Command
    <3> QED
      BY <2>2, <3>2
  <2>6. Clear(c)
    <3>1. \A s \in Servers : Bind(s) \/ Dies(s) \/ Crash(s) => UNCHANGED cmd
      BY DEF Bind, Dies, Crash
    <3>2. LaunchReads \/ LaunchWrites \/ OtherBinds \/ OtherLeaves => UNCHANGED cmd
      BY DEF LaunchReads, LaunchWrites, OtherBinds, OtherLeaves
    <3> QED
      BY <2>2, <2>3, <2>4, <2>5, <3>1, <3>2 DEF Next, Kinds
  <2>7. Cardinality(Alive) <= Allowance
    <3>1. cmd[c].targets = {}
      BY <2>6 DEF Clear
    <3>2. Alive \ ServingOn({}) = Alive
      BY DEF ServingOn
    <3> QED
      BY <2>1, <3>1, <3>2 DEF Accounts, At, Within
  <2>8. Serving \in SUBSET Alive
    BY DEF Serving, Alive
  <2> QED
    BY <2>1, <2>7, <2>8, FewerFit
<1>2. Spec => [][Promise]_vars
  BY <1>1, InvariantCorrect, PTL DEF Spec
<1> QED
  BY <1>2 DEF StopMeansStopped
=============================================================================
