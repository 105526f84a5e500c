------------------------ MODULE MasterCatalog_proofs ------------------------
(***************************************************************************)
(* Whatever rebuilds overlap, whoever waits for one is woken: for any      *)
(* number of registrations and readers, and any number of changes.         *)
(***************************************************************************)
EXTENDS MasterCatalog, TLAPS

Inv == TypeOK /\ NobodyWaitsInVain

-----------------------------------------------------------------------------
(* Values.                                                                 *)

LEMMA IdleTyped == Idle \in Task /\ Idle.at = "idle" /\ NoTools \in Pair /\ NoPrints \in Prints
BY DEF Idle, Task, Places, NoTools, NoPrints, Pair, Prints, Content

LEMMA ThreadsAre == Workers \subseteq Threads /\ Puller \in Threads /\ Puller \notin Workers
BY MasterAssumption DEF Threads, Workers

\* What a worker does next is neither inside a rebuild nor the wait itself.
LEMMA AfterTyped ==
    ASSUME NEW w
    PROVE  After(w) \in Task /\ After(w).at \in {"idle", "enter", "await"}
<1> DEFINE enter == [Idle EXCEPT !.at = "enter", !.stage = 2]
           await == [Idle EXCEPT !.at = "await", !.stage = 3]
           again == w \in Readers /\ Empty(master.tools)
<1>1. enter \in Task /\ enter.at = "enter"
  <2>1. "enter" \in Places /\ 2 \in 0..3
    BY DEF Places
  <2> QED
    BY <2>1, IdleTyped DEF Task, Idle
<1>2. await \in Task /\ await.at = "await"
  <2>1. "await" \in Places /\ 3 \in 0..3
    BY DEF Places
  <2> QED
    BY <2>1, IdleTyped DEF Task, Idle
<1>3. After(w) = CASE again /\ task[w].stage = 1 -> enter
                   [] again /\ task[w].stage = 2 -> await
                   [] OTHER -> Idle
  BY DEF After
<1> HIDE DEF enter, await, again
<1>4. After(w) \in {enter, await, Idle}
  BY <1>3
<1> QED
  BY <1>1, <1>2, <1>4, IdleTyped

LEMMA EmptyTyped == {} \in Content /\ Unset \notin Content
BY MasterAssumption DEF Content

\* What is made of tools are tools.
LEMMA ToolsTyped ==
    ASSUME TypeOK, NEW c \in Content
    PROVE  /\ Ready(c) \in Content /\ Hydrated(c) \in Content /\ Merged(c) \in Content
           /\ Fetched \in Content
<1>1. Copied \in Content /\ pushed.tools \in Content /\ registry \in Content
  BY EmptyTyped DEF TypeOK, Copied
<1> QED
  BY <1>1, EmptyTyped DEF Ready, Hydrated, Merged, Fetched, Content

LEMMA FileTyped == TypeOK /\ Loads(file) => file \in Content
BY MasterAssumption DEF TypeOK, Loads, Files, Content

LEMMA PrintsTyped == TypeOK => CurrentPrints \in Prints
BY DEF TypeOK, CurrentPrints, Prints

\* The part of a source is what was read or what the catalog had of it.
LEMMA PartTyped ==
    ASSUME TypeOK, NEW w \in Threads, NEW tools \in Content
    PROVE  Part(w, "file", tools) \in Content /\ Part(w, "pushed", tools) \in Content
<1>1. task[w].prior \in Pair
  BY DEF TypeOK, Task
<1> QED
  BY <1>1 DEF Part, Pair

-----------------------------------------------------------------------------
(* Steps of one worker.                                                    *)

LEMMA GoesTyped ==
    ASSUME task \in [Threads -> Task], NEW w \in Threads, NEW new \in Task, Goes(w, new)
    PROVE  /\ task' \in [Threads -> Task]
           /\ task'[w] = new
           /\ \A v \in Threads \ {w} : task'[v] = task[v]
BY DEF Goes

\* A step that leaves the flags alone keeps the promise, unless it leaves a
\* rebuild or begins a wait.
LEMMA GoesInVain ==
    ASSUME Inv, NEW w \in Threads, NEW new \in Task, Goes(w, new), UNCHANGED flags,
           w # Puller /\ task[w].at \in Rebuilding => new.at \in Rebuilding,
           new.at # "waiting"
    PROVE  NobodyWaitsInVain'
<1>1. /\ task'[w] = new
      /\ \A v \in Threads \ {w} : task'[v] = task[v]
  BY GoesTyped DEF Inv, TypeOK
<1>2. inProgress' => \E v \in Workers : task'[v].at \in Rebuilding
  BY <1>1, ThreadsAre DEF Inv, NobodyWaitsInVain, flags
<1>3. \A v \in Workers : task'[v].at = "waiting" => waiterEvent'
  BY <1>1, ThreadsAre DEF Inv, NobodyWaitsInVain, flags, At
<1> QED
  BY <1>2, <1>3 DEF Inv, NobodyWaitsInVain, flags, At

\* The rest of the state is typed when only the task of a worker changes.
LEMMA TaskStep ==
    ASSUME Inv, NEW w \in Threads, NEW new \in Task, Goes(w, new),
           UNCHANGED <<sources, memory, master, flags, bulk, jobs, events>>,
           w # Puller /\ task[w].at \in Rebuilding => new.at \in Rebuilding,
           new.at # "waiting"
    PROVE  Inv'
<1>1. NobodyWaitsInVain'
  BY GoesInVain
<1>2. task' \in [Threads -> Task]
  BY GoesTyped DEF Inv, TypeOK
<1>3. TypeOK'
  BY <1>2 DEF Inv, TypeOK, sources, memory, flags, jobs
<1> QED
  BY <1>1, <1>3 DEF Inv

\* What a worker goes on with when it has taken the part of a source.
LEMMA TakeTyped ==
    ASSUME TypeOK, NEW w \in Threads, NEW tools \in Content
    PROVE  /\ TakeFile(w, tools) =>
                \E new \in Task : Goes(w, new) /\ new.at \in {"pushed", "stamp"}
           /\ TakePushed(w, tools) => \E new \in Task : Goes(w, new) /\ new.at = "stamp"
<1>1. task[w] \in Task
  BY DEF TypeOK
<1>2. Part(w, "file", tools) \in Content /\ Part(w, "pushed", tools) \in Content
  BY PartTyped
<1> DEFINE place == IF "pushed" \in configured THEN "pushed" ELSE "stamp"
           f == [task[w] EXCEPT !.at = place, !.part.file = Part(w, "file", tools), !.got = {}]
           p == [task[w] EXCEPT !.at = "stamp", !.part.pushed = Part(w, "pushed", tools),
                                !.got = {}, !.prior = NoTools, !.priorPrint = NoPrints,
                                !.nowPrint = NoPrints]
<1>3. f \in Task /\ f.at = place
  <2>1. [task[w].part EXCEPT !.file = Part(w, "file", tools)] \in Pair
    BY <1>1, <1>2 DEF Task, Pair
  <2> QED
    BY <1>1, <2>1 DEF Task, Places, Rebuilding, Content
<1>4. p \in Task /\ p.at = "stamp"
  <2>1. [task[w].part EXCEPT !.pushed = Part(w, "pushed", tools)] \in Pair
    BY <1>1, <1>2 DEF Task, Pair
  <2> QED
    BY <1>1, <2>1, IdleTyped DEF Task, Places, Rebuilding, Content
<1>5. TakeFile(w, tools) => Goes(w, f)
  BY DEF TakeFile
<1>6. TakePushed(w, tools) => Goes(w, p)
  BY DEF TakePushed
<1>7. place \in {"pushed", "stamp"}
  OBVIOUS
<1> HIDE DEF place, f, p
<1> QED
  BY <1>3, <1>4, <1>5, <1>6, <1>7

-----------------------------------------------------------------------------
(* The steps of a rebuild.                                                 *)

\* A task that changes its place, and nothing else, is typed.
LEMMA MoveTyped ==
    ASSUME TypeOK, NEW w \in Threads, NEW place \in Places
    PROVE  /\ [task[w] EXCEPT !.at = place] \in Task
           /\ [task[w] EXCEPT !.at = place].at = place
           /\ \A c \in Content : /\ [task[w] EXCEPT !.at = place, !.got = c] \in Task
                               /\ [task[w] EXCEPT !.at = place, !.got = c].at = place
<1>1. task[w] \in Task
  BY DEF TypeOK
<1> QED
  BY <1>1 DEF Task

\* A worker that only goes to another place.
LEMMA MoveStep ==
    ASSUME Inv, NEW w \in Threads, NEW place \in Places, place # "waiting",
           w # Puller /\ task[w].at \in Rebuilding => place \in Rebuilding,
           \/ Goes(w, [task[w] EXCEPT !.at = place])
           \/ \E c \in Content : Goes(w, [task[w] EXCEPT !.at = place, !.got = c]),
           UNCHANGED <<sources, memory, master, flags, bulk, jobs, events>>
    PROVE  Inv'
<1> DEFINE move == [task[w] EXCEPT !.at = place]
           take(c) == [task[w] EXCEPT !.at = place, !.got = c]
<1>1. TypeOK
  BY DEF Inv
<1>2. /\ move \in Task /\ move.at = place
      /\ \A c \in Content : take(c) \in Task /\ take(c).at = place
  BY <1>1, MoveTyped
<1>3. Goes(w, move) \/ \E c \in Content : Goes(w, take(c))
  OBVIOUS
<1> HIDE DEF move, take
<1>4. PICK new \in Task : Goes(w, new) /\ new.at = place
  BY <1>2, <1>3
<1> QED
  BY <1>4, TaskStep

LEMMA EnterInv == ASSUME Inv, NEW w \in Workers, Enter(w) PROVE Inv'
<1>1. CASE ~inProgress
  <2> DEFINE new == [task[w] EXCEPT !.at = "prior"]
  <2>1. new \in Task /\ new.at = "prior"
    BY ThreadsAre, MoveTyped DEF Inv, Places, Rebuilding
  <2>2. Goes(w, new) /\ inProgress' = TRUE /\ waiterEvent' = waiterEvent
    BY <1>1 DEF Enter
  <2> HIDE DEF new
  <2>3. /\ task' \in [Threads -> Task]
        /\ task'[w] = new
        /\ \A v \in Threads \ {w} : task'[v] = task[v]
    BY <2>1, <2>2, ThreadsAre, GoesTyped DEF Inv, TypeOK
  <2>4. NobodyWaitsInVain'
    BY <2>1, <2>2, <2>3, ThreadsAre DEF Inv, NobodyWaitsInVain, Rebuilding, At
  <2>5. TypeOK'
    BY <2>2, <2>3 DEF Enter, Inv, TypeOK, sources, memory, jobs
  <2> QED
    BY <2>4, <2>5 DEF Inv
<1>2. CASE inProgress /\ ~Blocks(w)
  <2>1. Goes(w, After(w)) /\ UNCHANGED flags
    BY <1>2 DEF Enter, flags
  <2> QED
    BY <2>1, AfterTyped, ThreadsAre, TaskStep DEF Enter, At, Rebuilding, flags
<1>3. CASE inProgress /\ Blocks(w)
  <2> DEFINE place == IF waiterEvent THEN "await" ELSE "prior"
  <2>1. Goes(w, [task[w] EXCEPT !.at = place]) /\ UNCHANGED flags
    BY <1>3 DEF Enter, flags
  <2>2. place \in Places /\ place # "waiting"
    BY DEF Places, Rebuilding
  <2> HIDE DEF place
  <2> QED
    BY <2>1, <2>2, ThreadsAre, MoveTyped, TaskStep DEF Enter, At, Rebuilding, Inv, flags
<1> QED
  BY <1>1, <1>2, <1>3

LEMMA AwaitInv == ASSUME Inv, NEW w \in Workers, Await(w) PROVE Inv'
<1>1. CASE inProgress
  <2> DEFINE new == [task[w] EXCEPT !.at = "waiting"]
  <2>1. new \in Task /\ new.at = "waiting"
    BY ThreadsAre, MoveTyped DEF Inv, Places
  <2>2. Goes(w, new) /\ waiterEvent' = TRUE /\ inProgress' = inProgress
    BY <1>1 DEF Await
  <2> HIDE DEF new
  <2>3. /\ task' \in [Threads -> Task]
        /\ task'[w] = new
        /\ \A v \in Threads \ {w} : task'[v] = task[v]
    BY <2>1, <2>2, ThreadsAre, GoesTyped DEF Inv, TypeOK
  <2>4. \E v \in Workers \ {w} : task[v].at \in Rebuilding
    BY <1>1 DEF Inv, NobodyWaitsInVain, Await, At, Rebuilding
  <2>5. NobodyWaitsInVain'
    BY <1>1, <2>2, <2>3, <2>4, ThreadsAre DEF Inv, NobodyWaitsInVain, At
  <2>6. TypeOK'
    BY <2>2, <2>3 DEF Await, Inv, TypeOK, sources, memory, jobs
  <2> QED
    BY <2>5, <2>6 DEF Inv
<1>2. CASE ~inProgress
  <2>1. Goes(w, After(w)) /\ UNCHANGED flags
    BY <1>2 DEF Await, flags
  <2> QED
    BY <2>1, AfterTyped, ThreadsAre, TaskStep DEF Await, At, Rebuilding, flags
<1> QED
  BY <1>1, <1>2

LEMMA WaitTimesOutInv == ASSUME Inv, NEW w \in Threads, WaitTimesOut(w) PROVE Inv'
BY AfterTyped, TaskStep DEF WaitTimesOut, At, Rebuilding

\* What is read before the sources.
LEMMA ReadBeforeInv ==
    ASSUME Inv, NEW w \in Threads, ReadPrior(w) \/ ReadPrints(w)
    PROVE  Inv'
<1>1. task[w] \in Task /\ master.tools \in Pair /\ master.print \in Prints
  BY DEF Inv, TypeOK
<1>2. CASE ReadPrior(w)
  <2> DEFINE new == [task[w] EXCEPT !.at = "prints", !.prior = master.tools]
  <2>1. new \in Task /\ new.at = "prints"
    BY <1>1 DEF Task, Places, Rebuilding
  <2>2. Goes(w, new)
    BY <1>2 DEF ReadPrior
  <2> HIDE DEF new
  <2> QED
    BY <1>2, <2>1, <2>2, TaskStep DEF ReadPrior, Rebuilding
<1>3. CASE ReadPrints(w)
  <2> DEFINE place == IF "file" \in configured THEN "file" ELSE "pushed"
             new == [task[w] EXCEPT !.at = place, !.priorPrint = master.print,
                                    !.nowPrint = CurrentPrints]
  <2>1. place \in {"file", "pushed"}
    OBVIOUS
  <2>2. Goes(w, new)
    BY <1>3 DEF ReadPrints
  <2> HIDE DEF place
  <2>3. new \in Task /\ new.at = place
    BY <1>1, <2>1, PrintsTyped DEF Inv, Task, Places, Rebuilding
  <2> HIDE DEF new
  <2> QED
    BY <1>3, <2>1, <2>2, <2>3, TaskStep DEF ReadPrints, Rebuilding
<1> QED
  BY <1>2, <1>3

\* A worker that takes the part of a source, and leaves the rest alone.
LEMMA TakeStep ==
    ASSUME Inv, NEW w \in Threads, NEW tools \in Content,
           TakeFile(w, tools) \/ TakePushed(w, tools),
           UNCHANGED <<sources, memory, master, flags, bulk, jobs, events>>
    PROVE  Inv'
<1>1. PICK new \in Task : Goes(w, new) /\ new.at \in {"pushed", "stamp"}
  BY TakeTyped DEF Inv
<1> QED
  BY <1>1, TaskStep DEF Rebuilding

LEMMA ReadFileInv == ASSUME Inv, NEW w \in Threads, ReadFile(w) PROVE Inv'
<1>1. defs.tools \in Content
  BY DEF Inv, TypeOK
<1>2. CASE defs.tools # {}
  BY <1>1, <1>2, TakeStep DEF ReadFile
<1>3. CASE defs.tools = {} /\ Loads(file)
  <2>1. Goes(w, [task[w] EXCEPT !.at = "date", !.got = file]) /\ file \in Content
    BY <1>3, FileTyped DEF ReadFile, Inv
  <2>2. "date" \in Places /\ "date" \in Rebuilding /\ "date" # "waiting"
    BY DEF Places, Rebuilding
  <2>3. UNCHANGED <<sources, memory, master, flags, bulk, jobs, events>>
    BY DEF ReadFile
  <2> QED
    BY <2>1, <2>2, <2>3, MoveStep, Zenon
<1>4. CASE defs.tools = {} /\ ~Loads(file)
  <2>1. Goes(w, [task[w] EXCEPT !.at = "check"])
    BY <1>4 DEF ReadFile
  <2>2. "check" \in Places /\ "check" \in Rebuilding /\ "check" # "waiting"
    BY DEF Places, Rebuilding
  <2>3. UNCHANGED <<sources, memory, master, flags, bulk, jobs, events>>
    BY DEF ReadFile
  <2> QED
    BY <2>1, <2>2, <2>3, MoveStep, Zenon
<1> QED
  BY <1>2, <1>3, <1>4

LEMMA CheckFileInv == ASSUME Inv, NEW w \in Threads, CheckFile(w) PROVE Inv'
<1>1. defs.tools \in Content
  BY DEF Inv, TypeOK
<1> DEFINE again == defs.tools = {} /\ Blocks(w) /\ Loads(file)
<1>2. CASE again
  <2>1. Goes(w, [task[w] EXCEPT !.at = "again", !.got = file]) /\ file \in Content
    BY <1>2, FileTyped DEF CheckFile, Inv
  <2>2. "again" \in Places /\ "again" \in Rebuilding /\ "again" # "waiting"
    BY DEF Places, Rebuilding
  <2>3. UNCHANGED <<sources, memory, master, flags, bulk, jobs, events>>
    BY DEF CheckFile
  <2> QED
    BY <2>1, <2>2, <2>3, MoveStep, Zenon
<1>3. CASE ~again
  BY <1>1, <1>3, TakeStep DEF CheckFile
<1> QED
  BY <1>2, <1>3

\* A worker that also changes a memory, the catalog, or what is to be indexed.
LEMMA MemoryStep ==
    ASSUME Inv, NEW w \in Threads, NEW new \in Task, Goes(w, new),
           defs' \in [tools : Content, print : Files \cup {Unset}],
           pushed' \in [tools : Content, print : {Unset} \cup Content],
           copy' \in {Unset} \cup Content,
           master' \in [tools : Pair, print : Prints],
           indexer' \in Content,
           events' \in 0..MaxEvents,
           UNCHANGED <<sources, flags, bulk, loader>>,
           w # Puller /\ task[w].at \in Rebuilding => new.at \in Rebuilding,
           new.at # "waiting"
    PROVE  Inv'
<1>1. NobodyWaitsInVain'
  BY GoesInVain
<1>2. task' \in [Threads -> Task]
  BY GoesTyped DEF Inv, TypeOK
<1>3. TypeOK'
  BY <1>2 DEF Inv, TypeOK, sources, flags
<1> QED
  BY <1>1, <1>3 DEF Inv

\* What is in memory is typed, and so is what a worker dates.
LEMMA Typed ==
    ASSUME Inv, NEW w \in Threads
    PROVE  /\ TypeOK /\ task[w] \in Task /\ task[w].got \in Content
           /\ defs \in [tools : Content, print : Files \cup {Unset}]
           /\ pushed \in [tools : Content, print : {Unset} \cup Content]
           /\ pushed.tools \in Content
           /\ copy \in {Unset} \cup Content
           /\ master \in [tools : Pair, print : Prints]
           /\ indexer \in Content
           /\ events \in 0..MaxEvents
           /\ DateFile(w) => defs' \in [tools : Content, print : Files \cup {Unset}]
BY DEF Inv, TypeOK, Task, DateFile

\* The steps that ask for pushed tools only change the task of the thread.
LEMMA AskInv ==
    ASSUME Inv, NEW w \in Threads, ReadPushed(w) \/ AskPushed(w) \/ Pull(w) \/ Feed(w) \/ Fill(w)
    PROVE  Inv'
<1> DEFINE moves == {"load", "ask", "pull", "grow", "swap", "fill", "put"}
           whole == Hydrated(pushed.tools)
<1>1. moves \subseteq Places /\ "waiting" \notin moves
  BY DEF Places, Rebuilding
<1>2. UNCHANGED <<sources, memory, master, flags, bulk, jobs, events>>
  BY DEF ReadPushed, AskPushed, Pull, Feed, Fill
<1>3. /\ TypeOK /\ task[w].got \in Content /\ pushed.tools \in Content
      /\ (copy # Unset => copy \in Content)
  BY Typed
<1>4. \A c \in Content : Ready(c) \in Content /\ Hydrated(c) \in Content /\ Merged(c) \in Content
  BY <1>3, ToolsTyped
<1>5. Fetched \in Content /\ whole \in Content /\ Ready(Hydrated(task[w].got)) \in Content
  BY <1>3, <1>4, ToolsTyped, EmptyTyped
<1>6. CASE TakePushed(w, Ready(pushed.tools))
  BY <1>2, <1>3, <1>4, <1>6, TakeStep
<1>7. CASE ~TakePushed(w, Ready(pushed.tools))
  <2>1. PICK place \in moves :
          /\ w # Puller /\ task[w].at \in Rebuilding => place \in Rebuilding
          /\ \/ Goes(w, [task[w] EXCEPT !.at = place])
             \/ \E c \in Content : Goes(w, [task[w] EXCEPT !.at = place, !.got = c])
    <3>1. CASE ReadPushed(w)
      BY <3>1, <1>3 DEF ReadPushed, Rebuilding
    <3>2. CASE AskPushed(w)
      BY <3>2, <1>5, <1>7 DEF AskPushed, Rebuilding
    <3>3. CASE Pull(w)
      BY <3>3, <1>5 DEF Pull, Rebuilding
    <3>4. CASE Feed(w)
      BY <3>4, <1>3, <1>4 DEF Feed, At, Rebuilding
    <3>5. CASE Fill(w)
      BY <3>5, <1>5 DEF Fill, At, Rebuilding
    <3> QED
      BY <3>1, <3>2, <3>3, <3>4, <3>5
  <2> HIDE DEF moves
  <2> QED
    BY <1>1, <1>2, <2>1, MoveStep, Zenon
<1> QED
  BY <1>6, <1>7

LEMMA LoadFileInv == ASSUME Inv, NEW w \in Threads, LoadFile(w) PROVE Inv'
<1> DEFINE new == [task[w] EXCEPT !.at = "check", !.got = {}]
<1>1. Goes(w, new) /\ UNCHANGED <<pushed, copy, master, indexer>>
  BY DEF LoadFile, jobs
<1>2. new \in Task /\ new.at = "check"
  BY Typed DEF Task, Places, Rebuilding, Content
<1>3. defs' \in [tools : Content, print : Files \cup {Unset}]
  BY Typed DEF LoadFile
<1>4. UNCHANGED <<sources, flags, bulk, loader, events>>
  BY DEF LoadFile, jobs
<1> HIDE DEF new
<1> QED
  BY <1>1, <1>2, <1>3, <1>4, Typed, MemoryStep DEF Rebuilding

LEMMA FetchFileInv == ASSUME Inv, NEW w \in Threads, FetchFile(w) PROVE Inv'
<1>1. PICK new \in Task : Goes(w, new) /\ new.at \in {"pushed", "stamp"}
  BY Typed, TakeTyped DEF FetchFile
<1>2. defs' \in [tools : Content, print : Files \cup {Unset}]
  BY Typed DEF FetchFile
<1>3. UNCHANGED <<pushed, copy, master, indexer, sources, flags, bulk, loader, events>>
  BY DEF FetchFile, jobs
<1> QED
  BY <1>1, <1>2, <1>3, Typed, MemoryStep DEF Rebuilding

\* The steps that put pushed tools into the memory or onto the disk.
LEMMA LoadPushedInv == ASSUME Inv, NEW w \in Threads, LoadPushed(w) PROVE Inv'
<1> DEFINE new == [task[w] EXCEPT !.at = "ask", !.got = {}]
<1>1. Goes(w, new) /\ pushed' = [tools |-> task[w].got, print |-> task[w].got]
  BY DEF LoadPushed
<1>2. new \in Task /\ new.at = "ask"
  BY Typed, EmptyTyped DEF Task, Places, Rebuilding
<1>3. UNCHANGED <<defs, copy, master, indexer, sources, flags, bulk, loader, events>>
  BY DEF LoadPushed, jobs
<1> HIDE DEF new
<1> QED
  BY <1>1, <1>2, <1>3, Typed, MemoryStep DEF Rebuilding

LEMMA GrowPushedInv == ASSUME Inv, NEW w \in Threads, GrowPushed(w) PROVE Inv'
<1> DEFINE tools == Ready(task[w].got)
<1>1. tools \in Content
  BY Typed, ToolsTyped
<1>2. pushed' = [tools |-> tools, print |-> task[w].got] /\ pushed'.tools = tools
  BY DEF GrowPushed
<1>3. TakePushed(w, tools)
  BY <1>2 DEF GrowPushed
<1>4. UNCHANGED <<defs, copy, master, indexer, sources, flags, bulk, loader, events>>
  BY DEF GrowPushed, jobs
<1> HIDE DEF tools
<1>5. PICK new \in Task : Goes(w, new) /\ new.at = "stamp"
  BY <1>1, <1>3, Typed, TakeTyped
<1> QED
  BY <1>1, <1>2, <1>4, <1>5, Typed, MemoryStep DEF Rebuilding

LEMMA PullPushedInv == ASSUME Inv, NEW w \in Threads, PullPushed(w) PROVE Inv'
<1>1. PICK tools \in {task[w].got, {}, pushed.tools} : TakePushed(w, Ready(tools))
  BY DEF PullPushed
<1>2. Ready(tools) \in Content
  BY Typed, ToolsTyped, EmptyTyped
<1>3. PICK new \in Task : Goes(w, new) /\ new.at = "stamp"
  BY <1>1, <1>2, Typed, TakeTyped
<1>4. /\ copy' = task[w].got
      /\ UNCHANGED <<defs, pushed, master, indexer, sources, flags, bulk, loader, events>>
  BY DEF PullPushed, jobs
<1> QED
  BY <1>3, <1>4, Typed, MemoryStep DEF Rebuilding

LEMMA PutInv == ASSUME Inv, NEW w \in Threads, Put(w) PROVE Inv'
<1> DEFINE place == IF At(w, "swap") THEN "save" ELSE "keep"
           new == [task[w] EXCEPT !.at = place]
<1>1. place \in {"save", "keep"} /\ (w # Puller /\ task[w].at \in Rebuilding => place = "save")
  BY DEF Put, At, Rebuilding
<1>2. Goes(w, new) /\ pushed' = [tools |-> task[w].got, print |-> task[w].got]
  <2>1. Goes(w, [task[w] EXCEPT !.at = IF task[w].at = "swap" THEN "save" ELSE "keep"])
    BY Typed DEF Put, Task
  <2> QED
    BY <2>1 DEF Put, At
<1> HIDE DEF place
<1>3. new \in Task /\ new.at = place
  BY <1>1, Typed DEF Task, Places, Rebuilding
<1>4. UNCHANGED <<defs, copy, master, indexer, sources, flags, bulk, loader, events>>
  BY DEF Put, jobs
<1> HIDE DEF new
<1> QED
  BY <1>1, <1>2, <1>3, <1>4, Typed, MemoryStep DEF Rebuilding

LEMMA StampInv == ASSUME Inv, NEW w \in Threads, Stamp(w) PROVE Inv'
<1> DEFINE new == [task[w] EXCEPT !.at = "apply", !.nowPrint = CurrentPrints]
<1>1. new \in Task /\ new.at = "apply"
  BY Typed, PrintsTyped DEF Task, Places, Rebuilding
<1>2. Goes(w, new)
  BY DEF Stamp
<1> HIDE DEF new
<1> QED
  BY <1>1, <1>2, TaskStep DEF Stamp, Rebuilding

LEMMA ApplyInv == ASSUME Inv, NEW w \in Threads, Apply(w) PROVE Inv'
<1> DEFINE place == IF Empty(task[w].part) THEN "finish" ELSE "index"
           new == [task[w] EXCEPT !.at = place, !.part = NoTools, !.nowPrint = NoPrints]
<1>1. place \in {"finish", "index"}
  OBVIOUS
<1>2. Goes(w, new) /\ master' = [tools |-> task[w].part, print |-> task[w].nowPrint]
  BY DEF Apply
<1> HIDE DEF place
<1>3. new \in Task /\ new.at = place
  BY <1>1, Typed, IdleTyped DEF Task, Places, Rebuilding
<1>4. master' \in [tools : Pair, print : Prints]
  BY <1>2, Typed DEF Task
<1>5. UNCHANGED <<defs, pushed, copy, indexer, sources, flags, bulk, loader, events>>
  BY DEF Apply, memory, jobs
<1> HIDE DEF new
<1> QED
  BY <1>1, <1>2, <1>3, <1>4, <1>5, Typed, MemoryStep DEF Rebuilding

LEMMA IndexInv == ASSUME Inv, NEW w \in Threads, Index(w) PROVE Inv'
<1> DEFINE new == [task[w] EXCEPT !.at = "finish"]
<1>1. new \in Task /\ new.at = "finish"
  BY Typed DEF Task, Places, Rebuilding
<1>2. Goes(w, new)
  BY DEF Index
<1>3. defs' \in [tools : Content, print : Files \cup {Unset}]
  <2>1. file \in Files /\ (Loads(file) => file \in Content)
    BY FileTyped DEF Inv, TypeOK
  <2> QED
    BY <2>1, Typed DEF Index
<1>4. indexer' \in Content
  BY <1>3, Typed DEF Index
<1>5. UNCHANGED <<pushed, copy, master, sources, flags, bulk, loader, events>>
  BY DEF Index
<1> HIDE DEF new
<1> QED
  BY <1>1, <1>2, <1>3, <1>4, <1>5, Typed, MemoryStep DEF Rebuilding

\* The end of a rebuild clears the flag, and nobody is left who waits for it.
LEMMA EndInv ==
    ASSUME Inv, NEW new \in Task, NEW w \in Threads,
           new.at # "waiting",
           inProgress' = FALSE, waiterEvent' = FALSE,
           task' = [v \in Threads |-> IF v = w THEN new
                                      ELSE IF At(v, "waiting") THEN After(v) ELSE task[v]],
           events' \in 0..MaxEvents,
           UNCHANGED <<sources, memory, master, bulk, jobs>>
    PROVE  Inv'
<1>1. \A v \in Threads : task[v] \in Task /\ After(v) \in Task /\ After(v).at # "waiting"
  BY AfterTyped DEF Inv, TypeOK
<1>2. task' \in [Threads -> Task] /\ \A v \in Threads : task'[v].at # "waiting"
  BY <1>1 DEF At
<1>3. NobodyWaitsInVain'
  BY <1>2, ThreadsAre DEF NobodyWaitsInVain, At
<1>4. TypeOK'
  BY <1>2 DEF Inv, TypeOK, sources, memory, jobs
<1> QED
  BY <1>3, <1>4 DEF Inv

LEMMA FinishInv == ASSUME Inv, NEW w \in Threads, Finish(w) PROVE Inv'
<1>1. task' = [v \in Threads |-> IF v = w THEN After(w)
                                 ELSE IF At(v, "waiting") THEN After(v) ELSE task[v]]
  BY DEF Finish, FinishRebuild
<1>2. After(w) \in Task /\ After(w).at # "waiting"
  BY AfterTyped
<1>3. inProgress' = FALSE /\ waiterEvent' = FALSE /\ events' \in 0..MaxEvents
  BY DEF Finish, FinishRebuild, Inv, TypeOK
<1>4. UNCHANGED <<sources, memory, master, bulk, jobs>>
  BY DEF Finish
<1> QED
  BY <1>1, <1>2, <1>3, <1>4, EndInv

LEMMA CountedTyped == Inv /\ Counted => events' \in 0..MaxEvents
BY MasterAssumption DEF Inv, TypeOK, Counted

LEMMA RaiseInv == ASSUME Inv, NEW w \in Threads, Raise(w) PROVE Inv'
<1>1. task' = [v \in Threads |-> IF v = w THEN Idle
                                 ELSE IF At(v, "waiting") THEN After(v) ELSE task[v]]
  BY DEF Raise
<1>2. inProgress' = FALSE /\ waiterEvent' = FALSE /\ events' \in 0..MaxEvents
  BY CountedTyped DEF Raise
<1>3. UNCHANGED <<sources, memory, master, bulk, jobs>>
  BY DEF Raise
<1>4. Idle.at # "waiting"
  BY IdleTyped
<1> QED
  BY <1>1, <1>2, <1>3, <1>4, IdleTyped, EndInv

LEMMA RebuildStepInv == ASSUME Inv, NEW w \in Workers, RebuildStep(w) PROVE Inv'
BY EnterInv, AwaitInv, WaitTimesOutInv, ReadBeforeInv, ReadFileInv, LoadFileInv, CheckFileInv,
   FetchFileInv, AskInv, LoadPushedInv, GrowPushedInv, PutInv, PullPushedInv,
   StampInv, ApplyInv, IndexInv, FinishInv, RaiseInv, ThreadsAre
   DEF RebuildStep

-----------------------------------------------------------------------------
(* Who rebuilds.                                                           *)

\* A thread that is in no rebuild may go anywhere but to the wait.
LEMMA StartTyped ==
    /\ [Idle EXCEPT !.at = "enter"] \in Task /\ [Idle EXCEPT !.at = "enter"].at = "enter"
    /\ \A place \in {"enter", "copy"} :
          /\ [Idle EXCEPT !.at = place, !.stage = 1] \in Task
          /\ [Idle EXCEPT !.at = place, !.stage = 1].at = place
    /\ \A place \in {"merge", "pull", "feed", "keep"}, c \in Content :
          /\ [Idle EXCEPT !.at = place, !.got = c] \in Task
          /\ [Idle EXCEPT !.at = place, !.got = c].at = place
    /\ \A place \in {"loaded", "copied"}, c \in Content :
          /\ [Idle EXCEPT !.at = place, !.got = c, !.stage = 1] \in Task
          /\ [Idle EXCEPT !.at = place, !.got = c, !.stage = 1].at = place
<1>1. /\ {"enter", "copy", "merge", "pull", "feed", "keep", "loaded", "copied"} \subseteq Places
      /\ 1 \in 0..3
  BY DEF Places, Rebuilding
<1> QED
  BY <1>1, IdleTyped DEF Idle, Task

\* A thread that writes the copy is in no rebuild, unless it is the refresh.
LEMMA KeepInv == ASSUME Inv, NEW t \in Threads, Keep(t) \/ KeepFails(t) PROVE Inv'
<1>1. t # Puller => task[t].at \notin Rebuilding
  BY DEF Keep, KeepFails, At, Rebuilding
<1>2. PICK new \in Task : Goes(t, new) /\ new.at # "waiting"
  <2>1. CASE KeepFails(t)
    BY <2>1, IdleTyped DEF KeepFails
  <2>2. CASE Keep(t)
    <3>1. [task[t] EXCEPT !.at = "feed"] \in Task /\ [task[t] EXCEPT !.at = "feed"].at = "feed"
      BY Typed, MoveTyped DEF Places
    <3> QED
      BY <2>2, <3>1, StartTyped, IdleTyped DEF Keep
  <2> QED
    BY <2>1, <2>2
<1>3. copy' \in {Unset} \cup Content
  BY Typed DEF Keep, KeepFails, memory
<1>4. events' \in 0..MaxEvents
  BY Typed, CountedTyped DEF Keep, KeepFails
<1>5. UNCHANGED <<defs, pushed, master, indexer, sources, flags, bulk, loader>>
  BY DEF Keep, KeepFails, memory, jobs
<1> QED
  BY <1>1, <1>2, <1>3, <1>4, <1>5, Typed, MemoryStep

LEMMA FeedStepInv == ASSUME Inv, NEW t \in Threads, FeedStep(t) PROVE Inv'
BY AskInv, PutInv, KeepInv DEF FeedStep

\* The refresh of the pushed tools starts.
LEMMA PullerInv == ASSUME Inv, PullerStep \/ Flush PROVE Inv'
<1>1. CASE PullerFetches \/ Flush
  <2>1. Fetched \in Content /\ pushed.tools \in Content
    BY Typed, ToolsTyped, EmptyTyped, ThreadsAre
  <2> DEFINE with(place, c) == [Idle EXCEPT !.at = place, !.got = c]
  <2>2. \E place \in {"pull", "feed", "keep"}, c \in Content : Goes(Puller, with(place, c))
    BY <1>1, <2>1 DEF PullerFetches, Flush
  <2>3. \A place \in {"merge", "pull", "feed", "keep"}, c \in Content :
            with(place, c) \in Task /\ with(place, c).at = place
    BY StartTyped, Zenon
  <2> HIDE DEF with
  <2>4. PICK new \in Task : Goes(Puller, new) /\ new.at \in {"pull", "feed", "keep"}
    BY <2>2, <2>3
  <2>5. UNCHANGED <<sources, memory, master, flags, bulk, jobs, events>>
    BY <1>1 DEF PullerFetches, Flush
  <2> QED
    BY <2>4, <2>5, ThreadsAre, TaskStep
<1>2. CASE FeedStep(Puller)
  BY <1>2, FeedStepInv, ThreadsAre
<1> QED
  BY <1>1, <1>2 DEF PullerStep

LEMMA PollInv == ASSUME Inv, Poll PROVE Inv'
<1>1. PICK new \in Task : Goes(Poller, new) /\ new.at = "enter"
  BY StartTyped DEF Poll
<1>2. Poller \in Threads
  BY ThreadsAre DEF Workers
<1> QED
  BY <1>1, <1>2, TaskStep DEF Poll, At, Rebuilding

LEMMA PushInv == ASSUME Inv, NEW h \in Hydrators, Push(h) PROVE Inv'
<1>1. registry' \in Content /\ h \in Threads
  BY MasterAssumption, ThreadsAre DEF Push, Content, Workers
<1> DEFINE new == [Idle EXCEPT !.at = "merge", !.got = registry']
<1>2. new \in Task /\ new.at = "merge" /\ Goes(h, new)
  BY <1>1, StartTyped DEF Push
<1> HIDE DEF new
<1>3. UNCHANGED flags /\ task[h].at = "idle"
  BY DEF Push, At
<1>4. NobodyWaitsInVain'
  BY <1>1, <1>2, <1>3, GoesInVain DEF Rebuilding
<1>5. task' \in [Threads -> Task] /\ events' \in 0..MaxEvents
  BY <1>1, <1>2, GoesTyped, CountedTyped DEF Push, Inv, TypeOK
<1>6. TypeOK'
  BY <1>1, <1>5 DEF Push, Inv, TypeOK, memory, flags, jobs
<1> QED
  BY <1>4, <1>6 DEF Inv

LEMMA MergeInv == ASSUME Inv, NEW h \in Hydrators, Merge(h) PROVE Inv'
<1> DEFINE got == IF registry # {} THEN registry ELSE task[h].got
<1>1. h \in Threads
  BY ThreadsAre DEF Workers
<1>2. got \in Content
  BY <1>1, Typed DEF Inv, TypeOK
<1>3. Goes(h, [task[h] EXCEPT !.at = "feed", !.got = got])
  BY <1>1, Typed DEF Merge, Task
<1>4. UNCHANGED <<sources, memory, master, flags, bulk, jobs, events>>
  BY DEF Merge
<1>5. "feed" \in Places /\ task[h].at \notin Rebuilding /\ "feed" # "waiting"
  BY DEF Places, Merge, At, Rebuilding
<1> HIDE DEF got
<1> QED
  BY <1>1, <1>2, <1>3, <1>4, <1>5, MoveStep, Zenon

LEMMA BlockingGetInv ==
    ASSUME Inv, NEW r \in Readers, BlockingGet(r) \/ ReadCopy(r)
    PROVE  Inv'
<1>1. r \in Threads
  BY ThreadsAre DEF Workers
<1>2. (Loads(file) => file \in Content) /\ (copy # Unset => copy \in Content)
  BY <1>1, Typed, FileTyped
<1>3. PICK new \in Task : Goes(r, new) /\ new.at \in {"enter", "loaded", "copy", "copied"}
  <2> DEFINE at(place) == [Idle EXCEPT !.at = place, !.stage = 1]
             with(place, c) == [Idle EXCEPT !.at = place, !.got = c, !.stage = 1]
  <2>1. \/ \E place \in {"enter", "copy"} : Goes(r, at(place))
        \/ \E place \in {"loaded", "copied"}, c \in Content : Goes(r, with(place, c))
    BY <1>2 DEF BlockingGet, ReadCopy
  <2>2. \A place \in {"enter", "copy"} : at(place) \in Task /\ at(place).at = place
    BY StartTyped
  <2>3. \A place \in {"loaded", "copied"}, c \in Content :
            with(place, c) \in Task /\ with(place, c).at = place
    BY StartTyped, Zenon
  <2> HIDE DEF at, with
  <2> QED
    BY <2>1, <2>2, <2>3
<1>4. UNCHANGED <<sources, memory, master, flags, bulk, jobs, events>>
  BY DEF BlockingGet, ReadCopy
<1>5. task[r].at \notin Rebuilding
  BY DEF BlockingGet, ReadCopy, At, Rebuilding
<1> QED
  BY <1>1, <1>3, <1>4, <1>5, TaskStep

LEMMA HydrateInv ==
    ASSUME Inv, NEW r \in Readers, Hydrate(r) \/ HydrateCopy(r)
    PROVE  Inv'
<1>1. r \in Threads
  BY ThreadsAre DEF Workers
<1>2. PICK new \in Task : Goes(r, new) /\ new.at \in {"copy", "enter"}
  BY StartTyped DEF Hydrate, HydrateCopy
<1>3. defs' \in [tools : Content, print : Files \cup {Unset}]
  BY <1>1, Typed DEF Hydrate, HydrateCopy
<1>4. pushed' \in [tools : Content, print : {Unset} \cup Content]
  BY <1>1, Typed DEF Hydrate, HydrateCopy
<1>5. UNCHANGED <<copy, master, indexer, sources, flags, bulk, loader, events>>
  BY DEF Hydrate, HydrateCopy, jobs
<1>6. task[r].at \notin Rebuilding
  BY DEF Hydrate, HydrateCopy, At, Rebuilding
<1> QED
  BY <1>1, <1>2, <1>3, <1>4, <1>5, <1>6, Typed, MemoryStep

-----------------------------------------------------------------------------
(* What no worker does.                                                    *)

LEMMA AroundInv ==
    ASSUME Inv, EditFile \/ Depart \/ Withhold \/ LoaderStep \/ IndexerStep
    PROVE  Inv'
<1>1. UNCHANGED <<task, flags>>
  BY DEF EditFile, Depart, Withhold, LoaderStep, LoaderPrints, LoaderLoads, LoaderApplies,
         IndexerStep, IndexerSwaps, IndexerFails
<1>2. NobodyWaitsInVain'
  BY <1>1 DEF Inv, NobodyWaitsInVain, At, flags
<1>3. CASE EditFile \/ Depart \/ Withhold
  <2>1. events' \in 0..MaxEvents
    BY <1>3, CountedTyped DEF EditFile, Depart, Withhold
  <2>2. TypeOK'
    BY <1>3, <2>1 DEF EditFile, Depart, Withhold, Inv, TypeOK, Content, memory, flags, jobs
  <2> QED
    BY <1>2, <2>2 DEF Inv
<1>4. CASE LoaderStep
  <2>1. loader' \in [at : {"idle", "load", "apply"}, print : Files \cup {Unset}, got : Content]
    <3>1. CASE LoaderPrints
      <4>1. file \in Files /\ {} \in Content
        BY EmptyTyped DEF Inv, TypeOK
      <4> QED
        BY <3>1, <4>1 DEF LoaderPrints
    <3>2. CASE LoaderLoads
      <4>1. Loads(file) => file \in Content
        BY FileTyped DEF Inv
      <4>2. NoLoader \in [at : {"idle"}, print : {Unset}, got : Content]
        BY EmptyTyped DEF NoLoader
      <4> QED
        BY <3>2, <4>1, <4>2 DEF LoaderLoads, Inv, TypeOK
    <3>3. CASE LoaderApplies
      BY <3>3, EmptyTyped DEF LoaderApplies, NoLoader
    <3> QED
      BY <1>4, <3>1, <3>2, <3>3 DEF LoaderStep
  <2>2. defs' \in [tools : Content, print : Files \cup {Unset}]
    BY <1>4 DEF LoaderStep, LoaderPrints, LoaderLoads, LoaderApplies, Inv, TypeOK, memory
  <2>3. UNCHANGED <<sources, pushed, copy, master, flags, bulk, indexer, task, events>>
    BY <1>4 DEF LoaderStep, LoaderPrints, LoaderLoads, LoaderApplies, memory
  <2>4. TypeOK'
    BY <2>1, <2>2, <2>3 DEF Inv, TypeOK, sources, flags
  <2> QED
    BY <1>2, <2>4 DEF Inv
<1>5. CASE IndexerStep
  <2>1. events' \in 0..MaxEvents
    BY <1>5, CountedTyped DEF IndexerStep, IndexerSwaps, IndexerFails, Inv, TypeOK
  <2>2. TypeOK'
    BY <1>5, <2>1 DEF IndexerStep, IndexerSwaps, IndexerFails, Inv, TypeOK, Content, sources,
                memory, flags, jobs
  <2> QED
    BY <1>2, <2>2 DEF Inv
<1> QED
  BY <1>3, <1>4, <1>5

-----------------------------------------------------------------------------

LEMMA InitInv == Init => Inv
<1>1. ASSUME Init PROVE TypeOK
  <2>1. {} \in Content /\ 0 \in 0..MaxEvents
    BY MasterAssumption, EmptyTyped
  <2>2. task \in [Threads -> Task]
    BY <1>1, IdleTyped DEF Init
  <2>3. master \in [tools : Pair, print : Prints]
    BY <1>1, IdleTyped DEF Init
  <2>4. loader \in [at : {"idle", "load", "apply"}, print : Files \cup {Unset}, got : Content]
    BY <1>1, <2>1 DEF Init, NoLoader
  <2>5. defs \in [tools : Content, print : Files \cup {Unset}] /\ configured \subseteq {"file", "pushed"}
    BY <1>1, <2>1 DEF Init
  <2>6. copy \in {Unset} \cup Content /\ pushed \in [tools : Content, print : {Unset} \cup Content]
    BY <1>1, <2>1, MasterAssumption DEF Init, Content
  <2> QED
    BY <1>1, <2>1, <2>2, <2>3, <2>4, <2>5, <2>6 DEF Init, TypeOK
<1>2. Init => NobodyWaitsInVain
  BY IdleTyped, ThreadsAre DEF Init, NobodyWaitsInVain, At
<1> QED
  BY <1>1, <1>2 DEF Inv

LEMMA StepInv == Inv /\ [Next]_vars => Inv'
<1>1. Inv /\ UNCHANGED vars => Inv'
  <2> SUFFICES ASSUME Inv, UNCHANGED vars PROVE Inv'
    OBVIOUS
  <2>1. TypeOK'
    BY DEF Inv, TypeOK, vars, sources, memory, flags, jobs
  <2>2. NobodyWaitsInVain'
    BY DEF Inv, NobodyWaitsInVain, At, vars, flags
  <2> QED
    BY <2>1, <2>2 DEF Inv
<1>2. ASSUME Inv, NEW w \in Workers, Step(w) PROVE Inv'
  <2>1. CASE RebuildStep(w)
    BY <1>2, <2>1, RebuildStepInv
  <2>2. CASE w \in Hydrators /\ (Merge(w) \/ FeedStep(w))
    BY <1>2, <2>2, MergeInv, FeedStepInv, ThreadsAre
  <2>3. CASE w \in Readers /\ (Hydrate(w) \/ ReadCopy(w) \/ HydrateCopy(w))
    BY <1>2, <2>3, BlockingGetInv, HydrateInv
  <2> QED
    BY <1>2, <2>1, <2>2, <2>3 DEF Step
<1>3. ASSUME Inv, Next PROVE Inv'
  <2>1. CASE EditFile \/ Depart \/ Withhold \/ LoaderStep \/ IndexerStep
    BY <1>3, <2>1, AroundInv
  <2>2. CASE PullerStep \/ Flush \/ Poll
    BY <1>3, <2>2, PullerInv, PollInv
  <2>3. CASE \E h \in Hydrators : Push(h)
    BY <1>3, <2>3, PushInv
  <2>4. CASE \E r \in Readers : BlockingGet(r)
    BY <1>3, <2>4, BlockingGetInv
  <2>5. CASE \E w \in Workers : Step(w)
    BY <1>2, <1>3, <2>5
  <2> QED
    BY <1>3, <2>1, <2>2, <2>3, <2>4, <2>5 DEF Next
<1> QED
  BY <1>1, <1>3

LEMMA Invariance == Spec => []Inv
<1> QED
  BY InitInv, StepInv, PTL DEF Spec

\* The state of the master catalog, of its sources and of the rebuilds is
\* typed, whatever the rebuilds read and apply.
THEOREM TypeCorrect == Spec => []TypeOK
<1>1. Inv => TypeOK
  BY DEF Inv
<1> QED
  BY <1>1, Invariance, PTL

\* Overlapping rebuilds clear each other's flag (_finish_rebuild) and may raise,
\* but a flag that is set has a rebuild that will clear it, and whoever waits has
\* an event that this rebuild sets.
THEOREM NobodyWaitsInVainCorrect == Spec => []NobodyWaitsInVain
<1>1. Inv => NobodyWaitsInVain
  BY DEF Inv
<1> QED
  BY <1>1, Invariance, PTL

=============================================================================
