----------------------------- MODULE SessionLog -----------------------------
(***************************************************************************)
(* One conversation's session log: the JSONL file in which the hooks keep  *)
(* what they put in the model's context (cyt_client/sessions.py, the       *)
(* injection gate of cyt/injection, cyt_client/tool_gate.py).              *)
(*                                                                         *)
(* The prompt hook asks the daemon which tools the prompt needs, logs what *)
(* the daemon answers, then prints it.  Tool calls run in parallel, with   *)
(* the prompt hook too: a hook before a call denies arguments that do not  *)
(* fit the logged catalog, and a hook after a get-tool-definitions call    *)
(* merges what it returned into that catalog.  The file has no lock: each  *)
(* hook reads it, makes up its mind and appends, and the others write in   *)
(* between.  A compaction empties the context and writes a marker; readers *)
(* skip what is before it.                                                 *)
(*                                                                         *)
(* This is the cyt_mcp catalog for the agents that take additionalContext. *)
(***************************************************************************)
EXTENDS Integers, FiniteSets, SequencesExt

CONSTANTS
    Tools, Versions,  \* a version stands for the hash of a definition
    Calls,            \* tool calls that run at the same time
    None,
    Threshold,        \* FULL_PROMOTION_THRESHOLD
    MaxHooks,         \* bound: hooks that run at the same time
    MaxEvents         \* bound: changes of the daemon's catalog, look-ups, hooks
                      \* killed, writes that fail

ASSUME SessionAssumption ==
    /\ None \notin Tools \cup Versions
    /\ Threshold \in Nat \ {0}
    /\ MaxHooks \in Nat /\ MaxEvents \in Nat

VARIABLES
    daemon,    \* the daemon's catalog
    log,       \* what the log holds after its latest marker
    seen,      \* the tool definitions in the model's context
    submit,    \* the prompt hook
    call,      \* the hooks around each call
    unshown,   \* history: texts that were logged and that nobody showed; see below
    events

vars == <<daemon, log, seen, submit, call, unshown, events>>

Catalog == [Tools -> Versions \cup {None}]
NoTools == [t \in Tools |-> None]

\* A Type-1 line of the log; one of the pruner's short forms is not "full".
Line == [version : Versions, full : BOOLEAN]
Text == [tool : Tools, version : Versions, full : BOOLEAN]

\* Prompts are the session_state lines, counted as far as the gate tells apart.
Empty == [tools |-> [t \in Tools |-> <<>>], catalog |-> NoTools, prompts |-> 0]

\* What the prompt hook has in hand: the answer, the tools that it leaves out, the
\* lines that the log lacked when it looked, and the catalog.
SubmitHook == [at : {"idle", "asked", "answered", "lines", "tools", "catalog", "logged"},
               hash : Catalog, reply : SUBSET Text,
               skipped : SUBSET (Tools \X Versions), lines : SUBSET Text,
               catalog : Catalog]
NoSubmit == [at |-> "idle", hash |-> NoTools, reply |-> {}, skipped |-> {},
             lines |-> {}, catalog |-> NoTools]

\* What a hook around a call has in hand: the definition it is about, whether it
\* tells the model, the version of the line it makes, and the merged catalog.
CallHook == [at : {"idle", "denied", "judged", "line", "lacks", "print", "looked", "merged"},
             tool : Tools \cup {None}, version : Versions \cup {None},
             tells : BOOLEAN, line : Versions \cup {None}, catalog : Catalog]
NoCall == [at |-> "idle", tool |-> None, version |-> None, tells |-> FALSE,
           line |-> None, catalog |-> NoTools]

Holds(text) == [version |-> text.version, full |-> text.full] \in Range(log.tools[text.tool])
Logged(t, v) == \E line \in Range(log.tools[t]) : line.version = v
LoggedInFull(t, v) == [version |-> v, full |-> TRUE] \in Range(log.tools[t])

\* Mutant of Latest: a tool that was never logged counts as logged.
LatestOrNone(t, v) == log.tools[t] = <<>> \/ Last(log.tools[t]).version = v

Latest(t, v) == log.tools[t] # <<>> /\ Last(log.tools[t]).version = v

\* How tool t is injected when its definition is v; the text of a tool that was
\* pruned another way than before has drifted and is not found verbatim.
Mode(t, v, drifted) ==
    IF LoggedInFull(t, v) THEN "skip"
    ELSE IF log.prompts = Threshold /\ Latest(t, v) THEN "full"
    ELSE IF log.prompts > Threshold /\ Latest(t, v) THEN "skip"
    ELSE IF Logged(t, v) /\ ~drifted THEN "skip"
    ELSE IF log.tools[t] # <<>> /\ ~Latest(t, v) THEN "full"
    ELSE IF Len(log.tools[t]) >= Threshold THEN "full"
    ELSE IF Latest(t, v) THEN "skip"
    ELSE "skinny"

Event == events < MaxEvents /\ events' = events + 1

Running == Cardinality({c \in Calls : call[c].at # "idle"})
           + IF submit.at = "idle" THEN 0 ELSE 1

\* The texts are in the context now.
Shown(texts) ==
    /\ seen' = seen \cup texts
    /\ unshown' = unshown \ texts

\* The hook that was to show the texts died; those of them that the log holds stay
\* there without having been shown.
NotShown(texts) ==
    /\ unshown' = unshown \cup {text \in texts \ seen : Holds(text)}
    /\ seen' = seen

Init ==
    /\ daemon \in Catalog
    /\ log = Empty
    /\ seen = {}
    /\ submit = NoSubmit
    /\ call = [c \in Calls |-> NoCall]
    /\ unshown = {}
    /\ events = 0

-----------------------------------------------------------------------------
(* The prompt hook.  Its payload carries the hash of the catalog; the       *)
(* daemon reads the rest of the log itself, when it answers.                *)

Ask ==
    /\ submit.at = "idle" /\ Running < MaxHooks
    /\ submit' = [NoSubmit EXCEPT !.at = "asked", !.hash = log.catalog]
    /\ UNCHANGED <<daemon, log, seen, call, unshown, events>>

\* An entry whose hash the client has is sent without its tools.
Unlogged(hash) == IF daemon = hash THEN NoTools ELSE daemon

\* With no catalog at all the answer is empty.
Answer ==
    /\ submit.at = "asked"
    /\ \E chosen \in SUBSET {t \in Tools : daemon[t] # None} :
       \E drifted \in SUBSET chosen :
         LET mode(t) == Mode(t, daemon[t], t \in drifted)
             sent    == {t \in chosen : mode(t) # "skip"}
         IN  submit' = IF daemon = NoTools THEN NoSubmit
                       ELSE [at |-> "answered", hash |-> NoTools, lines |-> {},
                             skipped |-> {<<t, daemon[t]>> : t \in chosen \ sent},
                             reply |-> {[tool |-> t, version |-> daemon[t],
                                         full |-> mode(t) = "full"] : t \in sent},
                             catalog |-> Unlogged(submit.hash)]
    /\ UNCHANGED <<daemon, log, seen, call, unshown, events>>

\* What append_tool_entries adds of the reply to the lines of t.  It reads the log
\* twice, for the lines and for the full ones; hooks only add lines while one runs, so
\* for each tool the later of the reads that decides is this one.
Fresh(t) ==
    {text \in submit.reply :
        /\ text.tool = t
        /\ ~ Logged(t, text.version) \/ (text.full /\ ~ LoggedInFull(t, text.version))}

ReadLines ==
    /\ submit.at = "answered"
    /\ submit' = [submit EXCEPT !.at = "lines", !.skipped = {},
                                !.lines = UNION {Fresh(t) : t \in Tools}]
    /\ UNCHANGED <<daemon, log, seen, call, unshown, events>>

\* append_session_log, whatever was written since the log was read.
LogTools ==
    /\ submit.at = "lines"
    /\ log' = [log EXCEPT !.tools = [t \in Tools |->
                 LET fresh == {text \in submit.lines : text.tool = t}
                     text  == CHOOSE x \in fresh : TRUE
                 IN  IF fresh = {} THEN log.tools[t]
                     ELSE Append(log.tools[t],
                                 [version |-> text.version, full |-> text.full])]]
    /\ submit' = [submit EXCEPT !.at = "tools", !.lines = {}]
    /\ UNCHANGED <<daemon, seen, call, unshown, events>>

\* Mutant of WithCatalog: one entry per catalog is enough.
WithFirstCatalog(catalog) ==
    IF catalog = NoTools \/ log.catalog # NoTools THEN log
    ELSE [log EXCEPT !.catalog = catalog]

\* append_tool_catalog_entries: an entry without tools is not written, nor one whose
\* hash was the latest when the hook looked; that is as if it were written at the look.
WithCatalog(catalog) ==
    IF catalog = NoTools THEN log ELSE [log EXCEPT !.catalog = catalog]

LogCatalog ==
    /\ submit.at = "tools"
    /\ log' = WithCatalog(submit.catalog)
    /\ submit' = [submit EXCEPT !.at = "catalog", !.catalog = NoTools]
    /\ UNCHANGED <<daemon, seen, call, unshown, events>>

LogPrompt ==
    /\ submit.at = "catalog"
    /\ log' = [log EXCEPT !.prompts = IF @ > Threshold THEN @ ELSE @ + 1]
    /\ submit' = [submit EXCEPT !.at = "logged"]
    /\ UNCHANGED <<daemon, seen, call, unshown, events>>

\* After a write that fails the other lines are not written; the text is printed.
LogFails ==
    /\ submit.at \in {"lines", "tools", "catalog"}
    /\ Event
    /\ submit' = [submit EXCEPT !.at = "logged", !.lines = {}, !.catalog = NoTools]
    /\ UNCHANGED <<daemon, log, seen, call, unshown>>

Show ==
    /\ submit.at = "logged"
    /\ Shown(submit.reply)
    /\ submit' = NoSubmit
    /\ UNCHANGED <<daemon, log, call, events>>

\* The agent gives up on the hook, or the daemon on the request.
SubmitKilled ==
    /\ submit.at # "idle"
    /\ Event
    /\ NotShown(IF submit.at \in {"tools", "catalog", "logged"} THEN submit.reply ELSE {})
    /\ submit' = NoSubmit
    /\ UNCHANGED <<daemon, log, call>>

-----------------------------------------------------------------------------
(* The hook before a call whose arguments do not fit.  Other calls, and     *)
(* unlisted tools, change nothing here.                                     *)

Deny(c, t) ==
    /\ call[c].at = "idle" /\ Running < MaxHooks
    /\ log.catalog[t] # None
    /\ call' = [call EXCEPT ![c] = [NoCall EXCEPT !.at = "denied", !.tool = t,
                                                  !.version = log.catalog[t]]]
    /\ UNCHANGED <<daemon, log, seen, submit, unshown, events>>

\* The reason holds the definition unless the model has it already.
JudgeDenied(c) ==
    /\ call[c].at = "denied"
    /\ \E drifted \in BOOLEAN :
         call' = [call EXCEPT ![c].at = "judged",
                    ![c].tells = Mode(call[c].tool, call[c].version, drifted) # "skip"]
    /\ UNCHANGED <<daemon, log, seen, submit, unshown, events>>

\* The line is made from the catalog as it is now.
ReadDenied(c) ==
    LET v == log.catalog[call[c].tool]
    IN  /\ call[c].at = "judged"
        /\ call' = [call EXCEPT ![c].at = "line",
                                ![c].line = IF v = None THEN call[c].version ELSE v]
        /\ UNCHANGED <<daemon, log, seen, submit, unshown, events>>

\* Pre-exposure and _session_has_full_tool; a line that the second read finds and the
\* first did not makes the first skip too, had it come later.
CheckDenied(c) ==
    /\ call[c].at = "line"
    /\ \E drifted \in BOOLEAN :
         call' = [call EXCEPT ![c] =
                    IF Mode(@.tool, @.line, drifted) = "skip"
                    THEN [@ EXCEPT !.at = "print", !.line = None]
                    ELSE [@ EXCEPT !.at = "lacks"]]
    /\ UNCHANGED <<daemon, log, seen, submit, unshown, events>>

\* The definition in the reason that the hook prints.
Told(c) == IF call[c].tells
           THEN {[tool |-> call[c].tool, version |-> call[c].version, full |-> TRUE]}
           ELSE {}

\* append_session_log, whatever was written since the log was read.  When the line is
\* of another version than the hook prints, or it prints none, nobody shows it.
LogDenied(c) ==
    LET t    == call[c].tool
        text == [tool |-> t, version |-> call[c].line, full |-> TRUE]
    IN  /\ call[c].at = "lacks"
        /\ log' = [log EXCEPT !.tools[t] =
                     Append(@, [version |-> call[c].line, full |-> TRUE])]
        /\ unshown' = unshown \cup ({text} \ (seen \cup Told(c)))
        /\ call' = [call EXCEPT ![c].at = "print", ![c].line = None]
        /\ UNCHANGED <<daemon, seen, submit, events>>

LogDeniedFails(c) ==
    /\ call[c].at = "lacks"
    /\ Event
    /\ call' = [call EXCEPT ![c].at = "print", ![c].line = None]
    /\ UNCHANGED <<daemon, log, seen, submit, unshown>>

ShowDenied(c) ==
    /\ call[c].at = "print"
    /\ Shown(Told(c))
    /\ call' = [call EXCEPT ![c] = NoCall]
    /\ UNCHANGED <<daemon, log, submit, events>>

-----------------------------------------------------------------------------
(* The hook after a get-tool-definitions call, which reads the catalog and  *)
(* writes it back with the definition that the aggregator returned.  The    *)
(* aggregator's version may be ahead of the daemon's.                       *)

LookUp(c, t, v) ==
    /\ call[c].at = "idle" /\ Running < MaxHooks
    /\ Event
    /\ Shown({[tool |-> t, version |-> v, full |-> TRUE]})
    /\ call' = [call EXCEPT ![c] = [NoCall EXCEPT !.at = "looked", !.tool = t,
                                                  !.version = v]]
    /\ UNCHANGED <<daemon, log, submit>>

Merge(c) ==
    /\ call[c].at = "looked"
    /\ call' = [call EXCEPT ![c].at = "merged",
                            ![c].catalog = [log.catalog EXCEPT ![call[c].tool] =
                                                                   call[c].version]]
    /\ UNCHANGED <<daemon, log, seen, submit, unshown, events>>

Capture(c) ==
    /\ call[c].at = "merged"
    /\ log' = WithCatalog(call[c].catalog)
    /\ call' = [call EXCEPT ![c] = NoCall]
    /\ UNCHANGED <<daemon, seen, submit, unshown, events>>

CallKilled(c) ==
    /\ call[c].at # "idle"
    /\ Event
    /\ NotShown(IF call[c].at = "print" THEN Told(c) ELSE {})
    /\ call' = [call EXCEPT ![c] = NoCall]
    /\ UNCHANGED <<daemon, log, submit>>

-----------------------------------------------------------------------------

\* The agent compacts when it waits for nothing.
Quiet == submit.at = "idle" /\ \A c \in Calls : call[c].at = "idle"

\* Mutant of Compact: the readers do not know the marker.
CompactUnread ==
    /\ Quiet
    /\ seen' = {}
    /\ unshown' = {}
    /\ UNCHANGED <<daemon, log, submit, call, events>>

Compact ==
    /\ Quiet
    /\ seen' = {}
    /\ log' = Empty
    /\ unshown' = {}
    /\ UNCHANGED <<daemon, submit, call, events>>

\* The marker cannot be written, or the hook is killed; the agent compacts anyway.
CompactUnmarked ==
    /\ Quiet
    /\ Event
    /\ seen' = {}
    /\ unshown' = {text \in Text : Holds(text)}
    /\ UNCHANGED <<daemon, log, submit, call>>

DaemonChanges ==
    /\ Event
    /\ \E t \in Tools : \E v \in (Versions \cup {None}) \ {daemon[t]} :
         daemon' = [daemon EXCEPT ![t] = v]
    /\ UNCHANGED <<log, seen, submit, call, unshown>>

SubmitStep == Answer \/ ReadLines \/ LogTools \/ LogCatalog \/ LogPrompt \/ Show

CallStep(c) ==
    \/ JudgeDenied(c) \/ ReadDenied(c) \/ CheckDenied(c) \/ LogDenied(c) \/ ShowDenied(c)
    \/ Merge(c) \/ Capture(c)

Next ==
    \/ Ask
    \/ SubmitStep
    \/ LogFails
    \/ SubmitKilled
    \/ \E c \in Calls :
         \/ CallStep(c)
         \/ LogDeniedFails(c)
         \/ CallKilled(c)
         \/ \E t \in Tools : Deny(c, t) \/ \E v \in Versions : LookUp(c, t, v)
    \/ Compact
    \/ CompactUnmarked
    \/ DaemonChanges

Spec == Init /\ [][Next]_vars

\* A hook that has begun goes on, and the user goes on prompting, whatever MaxHooks
\* lets run in between.
Fairness ==
    /\ SF_vars(Ask) /\ WF_vars(SubmitStep)
    /\ \A c \in Calls : WF_vars(CallStep(c))

LiveSpec == Spec /\ Fairness

-----------------------------------------------------------------------------

\* The types.  A line may be in the log twice: two hooks that both looked before
\* either wrote both write it.
TypeOK ==
    /\ daemon \in Catalog
    /\ log.catalog \in Catalog
    /\ log.prompts \in 0 .. Threshold + 1
    /\ log.tools \in [Tools -> Seq(Line)]
    /\ seen \subseteq Text
    /\ submit \in SubmitHook
    /\ call \in [Calls -> CallHook]
    /\ unshown \subseteq Text
    /\ events \in 0 .. MaxEvents

\* A hook that may have logged the text is about to print it.
Coming(text) ==
    \/ submit.at \in {"tools", "catalog", "logged"} /\ text \in submit.reply
    \/ \E c \in Calls : call[c].at = "print" /\ text \in Told(c)

\* The hooks log before they print.  Whatever they write between each other's reads
\* and writes, a line of the log stands for a text of that version and form that is in
\* the context or about to be; the only others are those the history names, which a
\* dead hook, a compaction without a marker or a deny about a changed definition left.
LoggedIsSeen ==
    \A text \in Text : Holds(text) => text \in seen \cup unshown \/ Coming(text)

\* A tool that the pruner chose for a prompt is left out of the answer only when the
\* model has this version of it: in the context in some form, or about to be printed,
\* or on the word of a line that the history names.
SkippedIsSeen ==
    \A d \in submit.skipped :
        \E text \in Text : /\ text.tool = d[1] /\ text.version = d[2]
                           /\ text \in seen \cup unshown \/ Coming(text)

\* The gate of tool calls works on the daemon's catalog: captures of old or racing
\* definitions, lost updates and marks of compaction are made good by the prompts
\* that follow, though the catalog itself is sent only when its hash differs.
GateCatchesUp ==
    <>[](log.prompts > 0 /\ daemon # NoTools => log.catalog = daemon)
=============================================================================
