------------------------- MODULE SessionLog_proofs -------------------------
(***************************************************************************)
(* What is in the log is in the context: for any number of tools, versions *)
(* and parallel calls, and for hooks that die at any time.                 *)
(*                                                                         *)
(* A line is written by a hook that is about to print its text, or the     *)
(* history names it when it is written.  From then on the text moves only  *)
(* from the hook to the context, or, when the hook dies, to the history;   *)
(* a marker of compaction takes the lines with the context.                *)
(***************************************************************************)
EXTENDS SessionLog, TLAPS

LogType == [tools : [Tools -> Seq(Line)], catalog : Catalog, prompts : Nat]

\* What each phase of a hook has in hand.
SubmitType ==
    /\ submit \in SubmitHook
    /\ submit.at # "answered" => submit.skipped = {}
    /\ submit.lines \subseteq submit.reply

CallType ==
    /\ call \in [Calls -> CallHook]
    /\ \A c \in Calls : call[c].at # "idle" =>
         call[c].tool \in Tools /\ call[c].version \in Versions
    /\ \A c \in Calls : call[c].at \in {"line", "lacks"} => call[c].line \in Versions

Types ==
    /\ daemon \in Catalog
    /\ log \in LogType
    /\ seen \subseteq Text
    /\ SubmitType
    /\ CallType
    /\ unshown \subseteq Text

\* What is left out of an answer is left out on the strength of a line.
SkippedIsLogged == \A d \in submit.skipped : Logged(d[1], d[2])

IInv == Types /\ SkippedIsLogged /\ LoggedIsSeen

Backed(text) == text \in seen \cup unshown \/ Coming(text)

-----------------------------------------------------------------------------

\* A tool is skipped on the strength of a line of its version.
LEMMA SkipNeedsLine ==
    ASSUME Types, NEW t \in Tools, NEW v, NEW drifted, Mode(t, v, drifted) = "skip"
    PROVE  Logged(t, v)
<1>1. CASE LoggedInFull(t, v)
  BY <1>1 DEF LoggedInFull, Logged
<1>2. CASE Latest(t, v)
  <2>1. log.tools[t] \in Seq(Line) /\ log.tools[t] # <<>>
    BY <1>2 DEF Latest, Types, LogType
  <2>2. Len(log.tools[t]) \in DOMAIN log.tools[t]
    BY <2>1
  <2>3. Last(log.tools[t]) \in Range(log.tools[t])
    BY <2>2 DEF Last, Range
  <2> QED
    BY <1>2, <2>3 DEF Latest, Logged
<1>3. CASE ~ LoggedInFull(t, v) /\ ~ Latest(t, v)
  BY <1>3 DEF Mode
<1> QED
  BY <1>1, <1>2, <1>3

\* What the log says of a text is what it says of its version.
LEMMA LoggedIsHeld ==
    ASSUME Types, NEW t \in Tools, NEW v \in Versions, Logged(t, v)
    PROVE  \E text \in Text : text.tool = t /\ text.version = v /\ Holds(text)
<1>1. PICK line \in Range(log.tools[t]) : line.version = v
  BY DEF Logged
<1>2. line \in Line
  BY DEF Types, LogType, Range
<1>3. line = [version |-> v, full |-> line.full] /\ line.full \in BOOLEAN
  BY <1>1, <1>2 DEF Line
<1> DEFINE text == [tool |-> t, version |-> v, full |-> line.full]
<1>4. text \in Text
  BY <1>3 DEF Text
<1>5. Holds(text)
  BY <1>1, <1>3 DEF Holds
<1> QED
  BY <1>4, <1>5

\* So the invariant says what the gate relies on.
LEMMA SkippedFromLogged == IInv => SkippedIsSeen
<1> SUFFICES ASSUME IInv, NEW d \in submit.skipped
             PROVE  \E text \in Text : /\ text.tool = d[1] /\ text.version = d[2]
                                       /\ Backed(text)
  BY DEF SkippedIsSeen, Backed
<1>1. d \in Tools \X Versions
  BY DEF IInv, Types, SubmitType, SubmitHook
<1>2. Logged(d[1], d[2])
  BY DEF IInv, SkippedIsLogged
<1>3. PICK text \in Text : text.tool = d[1] /\ text.version = d[2] /\ Holds(text)
  BY <1>1, <1>2, LoggedIsHeld DEF IInv
<1> QED
  BY <1>3 DEF IInv, LoggedIsSeen, Backed

LEMMA NothingInHand ==
    /\ NoTools \in Catalog
    /\ NoSubmit \in SubmitHook /\ NoSubmit.at = "idle"
    /\ NoSubmit.skipped = {} /\ NoSubmit.lines = {} /\ NoSubmit.reply = {}
    /\ NoCall \in CallHook /\ NoCall.at = "idle" /\ NoCall.line = None
<1>1. NoTools \in Catalog
  BY DEF NoTools, Catalog
<1> QED
  BY <1>1 DEF NoSubmit, SubmitHook, NoCall, CallHook

\* Nothing is in the log or in the context at the start.
LEMMA InitInv == Init => IInv
<1> SUFFICES ASSUME Init PROVE IInv
  OBVIOUS
<1>1. Empty \in LogType
  BY NothingInHand DEF Empty, LogType
<1>2. SubmitType /\ CallType
  BY NothingInHand DEF Init, SubmitType, CallType
<1>3. Types
  BY <1>1, <1>2 DEF Init, Types
<1>4. \A text \in Text : ~ Holds(text)
  BY DEF Init, Empty, Holds, Range, Text
<1> QED
  BY <1>3, <1>4, NothingInHand DEF IInv, Init, SkippedIsLogged, LoggedIsSeen

\* A text that moves into the context stays backed, as does one that moves into the
\* history.
LEMMA LinesKept ==
    ASSUME IInv, Types', log'.tools = log.tools,
           \A text \in Text : Backed(text) /\ Holds(text) => Backed(text)',
           submit'.skipped \subseteq submit.skipped
    PROVE  IInv'
<1>1. \A text : Holds(text)' = Holds(text)
  BY DEF Holds
<1>2. \A t, v : Logged(t, v)' = Logged(t, v)
  BY DEF Logged
<1>3. LoggedIsSeen'
  BY <1>1 DEF IInv, LoggedIsSeen, Backed
<1> QED
  BY <1>2, <1>3 DEF IInv, SkippedIsLogged

-----------------------------------------------------------------------------
(* The prompt hook.                                                         *)

LEMMA AskInv == IInv /\ Ask => IInv'
<1> SUFFICES ASSUME IInv, Ask PROVE IInv'
  OBVIOUS
<1>1. /\ submit' \in SubmitHook /\ submit'.skipped = {} /\ submit'.at = "asked"
      /\ submit'.lines = {}
  BY NothingInHand DEF IInv, Types, LogType, Ask, NoSubmit, SubmitHook
<1>2. Types'
  BY <1>1 DEF IInv, Ask, Types, SubmitType, CallType
<1>3. \A text \in Text : Backed(text) => Backed(text)'
  BY DEF Ask, Backed, Coming, Told
<1> QED
  BY <1>1, <1>2, <1>3, LinesKept DEF Ask

LEMMA AnswerInv == IInv /\ Answer => IInv'
<1> SUFFICES ASSUME IInv, Answer PROVE IInv'
  OBVIOUS
<1>1. PICK chosen \in SUBSET {t \in Tools : daemon[t] # None} :
      \E drifted \in SUBSET chosen :
        LET mode(t) == Mode(t, daemon[t], t \in drifted)
            sent    == {t \in chosen : mode(t) # "skip"}
        IN  submit' = IF daemon = NoTools THEN NoSubmit
                      ELSE [at |-> "answered", hash |-> NoTools, lines |-> {},
                            skipped |-> {<<t, daemon[t]>> : t \in chosen \ sent},
                            reply |-> {[tool |-> t, version |-> daemon[t],
                                        full |-> mode(t) = "full"] : t \in sent},
                            catalog |-> Unlogged(submit.hash)]
  BY DEF Answer
<1>2. PICK drifted \in SUBSET chosen :
        LET mode(t) == Mode(t, daemon[t], t \in drifted)
            sent    == {t \in chosen : mode(t) # "skip"}
        IN  submit' = IF daemon = NoTools THEN NoSubmit
                      ELSE [at |-> "answered", hash |-> NoTools, lines |-> {},
                            skipped |-> {<<t, daemon[t]>> : t \in chosen \ sent},
                            reply |-> {[tool |-> t, version |-> daemon[t],
                                        full |-> mode(t) = "full"] : t \in sent},
                            catalog |-> Unlogged(submit.hash)]
  BY <1>1
<1> DEFINE sent == {t \in chosen : Mode(t, daemon[t], t \in drifted) # "skip"}
           skipped == {<<t, daemon[t]>> : t \in chosen \ sent}
           reply == {[tool |-> t, version |-> daemon[t],
                      full |-> Mode(t, daemon[t], t \in drifted) = "full"] : t \in sent}
<1>3. \A t \in chosen : t \in Tools /\ daemon[t] \in Versions
  BY DEF IInv, Types, Catalog
<1>4. reply \subseteq Text
  <2>1. SUFFICES ASSUME NEW t \in chosen
                 PROVE  [tool |-> t, version |-> daemon[t],
                         full |-> Mode(t, daemon[t], t \in drifted) = "full"] \in Text
    BY Zenon
  <2>2. (Mode(t, daemon[t], t \in drifted) = "full") \in BOOLEAN
    OBVIOUS
  <2> QED
    BY <1>3, <2>2 DEF Text
<1>5. skipped \subseteq Tools \X Versions
  BY <1>3
<1>6. \A d \in skipped : Logged(d[1], d[2])
  <2> SUFFICES ASSUME NEW t \in chosen \ sent PROVE Logged(t, daemon[t])
    OBVIOUS
  <2> QED
    BY <1>3, SkipNeedsLine DEF IInv
<1>7. Unlogged(submit.hash) \in Catalog
  BY NothingInHand DEF Unlogged, IInv, Types
<1>8. \/ submit' = NoSubmit
      \/ submit' = [at |-> "answered", hash |-> NoTools, lines |-> {}, skipped |-> skipped,
                    reply |-> reply, catalog |-> Unlogged(submit.hash)]
  BY <1>2
<1>9. UNCHANGED <<daemon, log, seen, call, unshown>> /\ submit.at = "asked"
  BY DEF Answer
<1> HIDE DEF skipped, reply
<1>10. /\ submit' \in SubmitHook /\ submit'.lines = {}
       /\ submit'.at = "answered" \/ (submit'.at = "idle" /\ submit'.skipped = {})
       /\ submit'.skipped \subseteq skipped
  BY <1>4, <1>5, <1>7, <1>8, NothingInHand DEF SubmitHook
<1>11. Types'
  BY <1>9, <1>10 DEF IInv, Types, SubmitType, CallType
<1>12. SkippedIsLogged'
  BY <1>6, <1>9, <1>10 DEF SkippedIsLogged, Logged
<1>13. LoggedIsSeen'
  BY <1>9 DEF IInv, LoggedIsSeen, Holds, Coming, Told
<1> QED
  BY <1>11, <1>12, <1>13 DEF IInv

LEMMA ReadLinesInv == IInv /\ ReadLines => IInv'
<1> SUFFICES ASSUME IInv, ReadLines PROVE IInv'
  OBVIOUS
<1> DEFINE lines == UNION {Fresh(t) : t \in Tools}
<1>1. lines \subseteq submit.reply
  BY DEF Fresh
<1>2. /\ UNCHANGED <<daemon, log, seen, call, unshown>> /\ submit.at = "answered"
      /\ submit' = [submit EXCEPT !.at = "lines", !.skipped = {}, !.lines = lines]
  BY DEF ReadLines
<1> HIDE DEF lines
<1>3. /\ submit' \in SubmitHook /\ submit'.at = "lines" /\ submit'.skipped = {}
      /\ submit'.reply = submit.reply /\ submit'.lines = lines
  BY <1>1, <1>2 DEF IInv, Types, SubmitType, SubmitHook
<1>4. Types'
  BY <1>1, <1>2, <1>3 DEF IInv, Types, SubmitType, CallType
<1>5. \A text \in Text : Backed(text) => Backed(text)'
  BY <1>2 DEF Backed, Coming, Told
<1> QED
  BY <1>2, <1>3, <1>4, <1>5, LinesKept

\* An appended line is the only one that is new.
LEMMA AppendedIsNew ==
    ASSUME NEW s \in Seq(Line), NEW line \in Line
    PROVE  /\ Range(s) \subseteq Range(Append(s, line))
           /\ \A x \in Range(Append(s, line)) : x \in Range(s) \/ x = line
<1>1. /\ DOMAIN Append(s, line) = 1 .. Len(s) + 1 /\ DOMAIN s = 1 .. Len(s)
      /\ \A i \in 1 .. Len(s) : Append(s, line)[i] = s[i]
      /\ Append(s, line)[Len(s) + 1] = line
  OBVIOUS
<1> QED
  BY <1>1 DEF Range

\* Every line that is appended has its text in the reply that is printed next.
LEMMA LogToolsInv == IInv /\ LogTools => IInv'
<1> SUFFICES ASSUME IInv, LogTools PROVE IInv'
  OBVIOUS
<1> DEFINE fresh(t) == {text \in submit.lines : text.tool = t}
           text(t) == CHOOSE x \in fresh(t) : TRUE
           line(t) == [version |-> text(t).version, full |-> text(t).full]
           tools == [t \in Tools |-> IF fresh(t) = {} THEN log.tools[t]
                                     ELSE Append(log.tools[t], line(t))]
<1>1. /\ UNCHANGED <<daemon, seen, call, unshown>> /\ submit.at = "lines"
      /\ submit' = [submit EXCEPT !.at = "tools", !.lines = {}]
      /\ log' = [log EXCEPT !.tools = tools]
  BY DEF LogTools
<1>2. \A t \in Tools : fresh(t) # {} =>
        /\ text(t) \in submit.reply /\ text(t) \in Text /\ text(t).tool = t
        /\ line(t) \in Line
  BY DEF IInv, Types, SubmitType, SubmitHook, Text, Line
<1>3. tools \in [Tools -> Seq(Line)]
  <2> SUFFICES ASSUME NEW t \in Tools
               PROVE  (IF fresh(t) = {} THEN log.tools[t]
                       ELSE Append(log.tools[t], line(t))) \in Seq(Line)
    OBVIOUS
  <2>1. log.tools[t] \in Seq(Line)
    BY DEF IInv, Types, LogType
  <2> HIDE DEF line, fresh
  <2> QED
    BY <1>2, <2>1
<1>4. /\ submit' \in SubmitHook /\ submit'.at = "tools" /\ submit'.skipped = {}
      /\ submit'.reply = submit.reply /\ submit'.lines = {}
  BY <1>1 DEF IInv, Types, SubmitType, SubmitHook
<1>5. log' \in LogType /\ log'.tools = tools
  BY <1>1, <1>3 DEF IInv, Types, LogType
<1>6. Types'
  BY <1>1, <1>4, <1>5 DEF IInv, Types, SubmitType, CallType
<1>7. \A x \in Text : Backed(x) => Backed(x)'
  BY <1>1, <1>4 DEF Backed, Coming, Told
<1>8. ASSUME NEW x \in Text, Holds(x)' PROVE Backed(x)'
  <2>1. x.tool \in Tools /\ x = [tool |-> x.tool, version |-> x.version, full |-> x.full]
    BY DEF Text
  <2>2. [version |-> x.version, full |-> x.full] \in Range(tools[x.tool])
    BY <1>5, <1>8 DEF Holds
  <2>3. CASE Holds(x)
    BY <1>7, <2>3 DEF IInv, LoggedIsSeen, Backed
  <2>4. CASE ~ Holds(x)
    <3>1. fresh(x.tool) # {}
      BY <2>1, <2>2, <2>4 DEF Holds
    <3>2. tools[x.tool] = Append(log.tools[x.tool], line(x.tool))
      BY <2>1, <3>1
    <3>3. log.tools[x.tool] \in Seq(Line) /\ line(x.tool) \in Line
      BY <1>2, <2>1, <3>1 DEF IInv, Types, LogType
    <3>4. [version |-> x.version, full |-> x.full] = line(x.tool)
      <4> HIDE DEF line, fresh
      <4> QED
        BY <2>1, <2>2, <2>4, <3>2, <3>3, AppendedIsNew DEF Holds
    <3>5. x.version = text(x.tool).version /\ x.full = text(x.tool).full
      BY <3>4
    <3>6. x = text(x.tool)
      <4> DEFINE y == text(x.tool)
      <4>1. y \in Text /\ y.tool = x.tool
        BY <1>2, <2>1, <3>1
      <4>2. y.version = x.version /\ y.full = x.full
        BY <3>5
      <4> HIDE DEF y
      <4>3. y = [tool |-> y.tool, version |-> y.version, full |-> y.full]
        BY <4>1 DEF Text
      <4>4. x = y
        BY <2>1, <4>1, <4>2, <4>3
      <4> QED
        BY <4>4 DEF y
    <3>7. x \in submit.reply
      BY <1>2, <2>1, <3>1, <3>6
    <3> QED
      BY <1>4, <3>7 DEF Backed, Coming
  <2> QED
    BY <2>3, <2>4
<1> QED
  BY <1>4, <1>6, <1>8 DEF IInv, LoggedIsSeen, Backed, SkippedIsLogged

\* Steps that write the log but for its Type-1 lines, or nothing at all.
LEMMA CatalogKeepsLines ==
    ASSUME Types, NEW catalog \in Catalog
    PROVE  WithCatalog(catalog).tools = log.tools /\ WithCatalog(catalog) \in LogType
BY DEF Types, LogType, WithCatalog

LEMMA SubmitGoesOn ==
    IInv /\ (LogCatalog \/ LogPrompt \/ LogFails) => IInv'
<1> SUFFICES ASSUME IInv, LogCatalog \/ LogPrompt \/ LogFails PROVE IInv'
  OBVIOUS
<1>1. /\ submit' \in SubmitHook /\ submit'.at \in {"catalog", "logged"}
      /\ submit'.skipped = {} /\ submit'.reply = submit.reply
      /\ submit'.lines \subseteq submit.lines
  BY NothingInHand
     DEF IInv, Types, SubmitType, SubmitHook, LogCatalog, LogPrompt, LogFails
<1>2. log'.tools = log.tools /\ log' \in LogType
  <2>1. CASE LogCatalog
    BY <2>1, CatalogKeepsLines DEF LogCatalog, IInv, Types, SubmitType, SubmitHook
  <2>2. CASE LogPrompt
    BY <2>2, SessionAssumption DEF LogPrompt, IInv, Types, LogType
  <2>3. CASE LogFails
    BY <2>3 DEF LogFails, IInv, Types
  <2> QED
    BY <2>1, <2>2, <2>3
<1>3. UNCHANGED <<daemon, seen, call, unshown>>
  BY DEF LogCatalog, LogPrompt, LogFails
<1>4. Types'
  BY <1>1, <1>2, <1>3 DEF IInv, Types, SubmitType, CallType
<1>5. \A text \in Text : Backed(text) => Backed(text)'
  BY <1>1, <1>3 DEF Backed, Coming, Told
<1> QED
  BY <1>1, <1>2, <1>4, <1>5, LinesKept

\* The answer ends up in the context, or those of its texts that were logged in the
\* history.
LEMMA SubmitEnds == IInv /\ (Show \/ SubmitKilled) => IInv'
<1> SUFFICES ASSUME IInv, Show \/ SubmitKilled PROVE IInv'
  OBVIOUS
<1>1. submit' = NoSubmit /\ UNCHANGED <<daemon, log, call>>
  BY DEF Show, SubmitKilled
<1>2. seen' \subseteq Text /\ unshown' \subseteq Text
  BY DEF Show, SubmitKilled, Shown, NotShown, IInv, Types, SubmitType, SubmitHook
<1>3. Types'
  BY <1>1, <1>2, NothingInHand DEF IInv, Types, SubmitType, CallType
<1>4. ASSUME NEW text \in Text, Backed(text), Holds(text) PROVE Backed(text)'
  <2>1. CASE Show
    BY <1>1, <1>4, <2>1 DEF Show, Shown, Backed, Coming, Told
  <2>2. CASE SubmitKilled
    BY <1>1, <1>4, <2>2 DEF SubmitKilled, NotShown, Backed, Coming, Told
  <2> QED
    BY <2>1, <2>2
<1> QED
  BY <1>1, <1>3, <1>4, NothingInHand, LinesKept

-----------------------------------------------------------------------------
(* The hooks around the calls.                                              *)

\* A step of one hook that leaves the log's lines, the context and the history alone,
\* and what the hook is about to print.
LEMMA CallGoesOn ==
    ASSUME IInv, NEW c \in Calls, NEW hook \in CallHook,
           UNCHANGED <<daemon, seen, submit, unshown>>,
           log' \in LogType, log'.tools = log.tools,
           call' = [call EXCEPT ![c] = hook],
           hook.at # "idle" => hook.tool \in Tools /\ hook.version \in Versions,
           hook.at \in {"line", "lacks"} => hook.line \in Versions,
           call[c].at # "print"
    PROVE  IInv'
<1>1. /\ call' \in [Calls -> CallHook] /\ call'[c] = hook
      /\ \A d \in Calls : d # c => call'[d] = call[d]
  BY DEF IInv, Types, CallType
<1>2. Types'
  BY <1>1 DEF IInv, Types, SubmitType, CallType
<1>3. \A text \in Text : Backed(text) => Backed(text)'
  BY <1>1 DEF Backed, Coming, Told
<1> QED
  BY <1>2, <1>3, LinesKept

LEMMA DenyInv == ASSUME NEW c \in Calls, NEW t \in Tools PROVE IInv /\ Deny(c, t) => IInv'
<1> SUFFICES ASSUME IInv, Deny(c, t) PROVE IInv'
  OBVIOUS
<1> DEFINE hook == [NoCall EXCEPT !.at = "denied", !.tool = t, !.version = log.catalog[t]]
<1>1. log.catalog[t] \in Versions
  BY DEF Deny, IInv, Types, LogType, Catalog
<1>2. hook \in CallHook /\ hook.at = "denied" /\ hook.tool = t
      /\ hook.version = log.catalog[t]
  BY <1>1, NothingInHand DEF NoCall, CallHook
<1>3. /\ UNCHANGED <<daemon, log, seen, submit, unshown>> /\ call[c].at = "idle"
      /\ call' = [call EXCEPT ![c] = hook]
  BY DEF Deny
<1> HIDE DEF hook
<1> QED
  BY <1>1, <1>2, <1>3, CallGoesOn DEF IInv, Types

LEMMA DenyGoesOn ==
    ASSUME NEW c \in Calls
    PROVE  IInv /\ (JudgeDenied(c) \/ ReadDenied(c) \/ CheckDenied(c) \/ LogDeniedFails(c))
             => IInv'
<1> SUFFICES ASSUME IInv, JudgeDenied(c) \/ ReadDenied(c) \/ CheckDenied(c)
                            \/ LogDeniedFails(c)
             PROVE  IInv'
  OBVIOUS
<1>1. call[c] \in CallHook /\ call[c].tool \in Tools /\ call[c].version \in Versions
  BY DEF JudgeDenied, ReadDenied, CheckDenied, LogDeniedFails, IInv, Types, CallType
<1>2. UNCHANGED <<daemon, log, seen, submit, unshown>> /\ call[c].at # "print"
  BY DEF JudgeDenied, ReadDenied, CheckDenied, LogDeniedFails
<1>3. ASSUME NEW hook \in CallHook, call' = [call EXCEPT ![c] = hook],
             hook.tool = call[c].tool, hook.version = call[c].version,
             hook.at \in {"line", "lacks"} => hook.line \in Versions
      PROVE  IInv'
  BY <1>1, <1>2, <1>3, CallGoesOn DEF IInv, Types
<1>4. CASE JudgeDenied(c)
  <2>1. PICK drifted \in BOOLEAN :
          call' = [call EXCEPT ![c].at = "judged",
                     ![c].tells = Mode(call[c].tool, call[c].version, drifted) # "skip"]
    BY <1>4 DEF JudgeDenied
  <2> DEFINE tells == Mode(call[c].tool, call[c].version, drifted) # "skip"
             hook == [call[c] EXCEPT !.at = "judged", !.tells = tells]
  <2>2. tells \in BOOLEAN
    OBVIOUS
  <2>3. call' = [call EXCEPT ![c] = hook]
    BY <1>1, <2>1 DEF IInv, Types, CallType
  <2> HIDE DEF tells
  <2>4. /\ hook \in CallHook /\ hook.at = "judged"
        /\ hook.tool = call[c].tool /\ hook.version = call[c].version
    BY <1>1, <2>2 DEF CallHook
  <2> HIDE DEF hook
  <2> QED
    BY <1>3, <2>3, <2>4
<1>5. CASE ReadDenied(c)
  <2> DEFINE v == IF log.catalog[call[c].tool] = None THEN call[c].version
                  ELSE log.catalog[call[c].tool]
             hook == [call[c] EXCEPT !.at = "line", !.line = v]
  <2>1. v \in Versions
    BY <1>1 DEF IInv, Types, LogType, Catalog
  <2>2. call' = [call EXCEPT ![c] = hook]
    BY <1>1, <1>5 DEF ReadDenied, IInv, Types, CallType
  <2> HIDE DEF v
  <2>3. /\ hook \in CallHook /\ hook.line \in Versions
        /\ hook.tool = call[c].tool /\ hook.version = call[c].version
    BY <1>1, <2>1 DEF CallHook
  <2> HIDE DEF hook
  <2> QED
    BY <1>3, <2>2, <2>3
<1>6. CASE CheckDenied(c)
  <2> DEFINE done == [call[c] EXCEPT !.at = "print", !.line = None]
             lacks == [call[c] EXCEPT !.at = "lacks"]
  <2>1. \/ call' = [call EXCEPT ![c] = done]
        \/ call' = [call EXCEPT ![c] = lacks]
    BY <1>6 DEF CheckDenied, IInv, Types, CallType
  <2>2. /\ done \in CallHook /\ done.at = "print"
        /\ done.tool = call[c].tool /\ done.version = call[c].version
    BY <1>1 DEF CallHook
  <2>3. /\ lacks \in CallHook /\ lacks.line \in Versions
        /\ lacks.tool = call[c].tool /\ lacks.version = call[c].version
    BY <1>1, <1>6 DEF CheckDenied, CallHook, IInv, Types, CallType
  <2> HIDE DEF done, lacks
  <2> QED
    BY <1>3, <2>1, <2>2, <2>3
<1>7. CASE LogDeniedFails(c)
  <2> DEFINE hook == [call[c] EXCEPT !.at = "print", !.line = None]
  <2>1. call' = [call EXCEPT ![c] = hook]
    BY <1>1, <1>7 DEF LogDeniedFails, IInv, Types, CallType
  <2>2. /\ hook \in CallHook /\ hook.at = "print"
        /\ hook.tool = call[c].tool /\ hook.version = call[c].version
    BY <1>1 DEF CallHook
  <2> HIDE DEF hook
  <2> QED
    BY <1>3, <2>1, <2>2
<1> QED
  BY <1>4, <1>5, <1>6, <1>7

\* The line of a deny is what the hook prints, or the history names it.
LEMMA LogDeniedInv == ASSUME NEW c \in Calls PROVE IInv /\ LogDenied(c) => IInv'
<1> SUFFICES ASSUME IInv, LogDenied(c) PROVE IInv'
  OBVIOUS
<1> DEFINE t == call[c].tool
           line == [version |-> call[c].line, full |-> TRUE]
           text == [tool |-> t, version |-> call[c].line, full |-> TRUE]
           hook == [call[c] EXCEPT !.at = "print", !.line = None]
<1>1. /\ UNCHANGED <<daemon, seen, submit>> /\ call[c].at = "lacks"
      /\ log' = [log EXCEPT !.tools[t] = Append(@, line)]
      /\ unshown' = unshown \cup ({text} \ (seen \cup Told(c)))
      /\ call' = [call EXCEPT ![c].at = "print", ![c].line = None]
  BY DEF LogDenied
<1>2. /\ t \in Tools /\ call[c].line \in Versions /\ call[c].version \in Versions
      /\ call[c] \in CallHook /\ log.tools[t] \in Seq(Line)
  BY <1>1 DEF IInv, Types, CallType, LogType
<1>3. line \in Line /\ text \in Text
  BY <1>2 DEF Line, Text
<1>4. /\ hook \in CallHook /\ hook.at = "print" /\ hook.tool = t
      /\ hook.version = call[c].version /\ hook.tells = call[c].tells
  BY <1>2 DEF CallHook
<1>5. /\ call' \in [Calls -> CallHook] /\ call'[c] = hook
      /\ \A d \in Calls : d # c => call'[d] = call[d]
  BY <1>1, <1>4 DEF IInv, Types, CallType
<1> HIDE DEF hook
<1>6. /\ log' \in LogType
      /\ \A u \in Tools : log'.tools[u] = IF u = t THEN Append(log.tools[t], line)
                                                   ELSE log.tools[u]
  <2> HIDE DEF line
  <2>1. Append(log.tools[t], line) \in Seq(Line)
    BY <1>2, <1>3
  <2> HIDE DEF t
  <2> QED
    BY <1>1, <1>2, <2>1 DEF IInv, Types, LogType
<1>7. Types'
  <2>1. unshown' \subseteq Text
    BY <1>1, <1>3 DEF IInv, Types
  <2> QED
    BY <1>1, <1>2, <1>4, <1>5, <1>6, <2>1 DEF IInv, Types, SubmitType, CallType
<1>8. SkippedIsLogged'
  <2> SUFFICES ASSUME NEW d \in submit.skipped PROVE Logged(d[1], d[2])'
    BY <1>1 DEF SkippedIsLogged
  <2>1. d[1] \in Tools /\ Logged(d[1], d[2])
    BY DEF IInv, Types, SubmitType, SubmitHook, SkippedIsLogged
  <2>2. Range(log.tools[d[1]]) \subseteq Range(log'.tools[d[1]])
    <3> HIDE DEF line
    <3> QED
      BY <1>2, <1>3, <1>6, <2>1, AppendedIsNew
  <2> QED
    BY <2>1, <2>2 DEF Logged
<1>9. Told(c)' = Told(c)
  BY <1>4, <1>5 DEF Told
<1>10. \A x \in Text : Backed(x) => Backed(x)'
  BY <1>1, <1>5 DEF Backed, Coming, Told
<1>11. ASSUME NEW x \in Text, Holds(x)' PROVE Backed(x)'
  <2>1. x.tool \in Tools /\ x = [tool |-> x.tool, version |-> x.version, full |-> x.full]
    BY DEF Text
  <2>2. CASE Holds(x)
    BY <1>10, <2>2 DEF IInv, LoggedIsSeen, Backed
  <2>3. CASE ~ Holds(x)
    <3>1. x.tool = t /\ [version |-> x.version, full |-> x.full] = line
      <4> HIDE DEF line
      <4> QED
        BY <1>2, <1>3, <1>6, <1>11, <2>1, <2>3, AppendedIsNew DEF Holds
    <3>2. x = text
      <4>1. x.version = call[c].line /\ x.full = TRUE
        BY <3>1
      <4> QED
        BY <2>1, <3>1, <4>1
    <3>3. x \in seen \cup unshown' \/ x \in Told(c)
      BY <1>1, <3>2
    <3> QED
      BY <1>1, <1>4, <1>5, <1>9, <3>3 DEF Backed, Coming
  <2> QED
    BY <2>2, <2>3
<1> QED
  BY <1>7, <1>8, <1>11 DEF IInv, LoggedIsSeen, Backed

\* What the hook told ends up in the context, or in the history.
LEMMA CallEnds ==
    ASSUME NEW c \in Calls PROVE IInv /\ (ShowDenied(c) \/ CallKilled(c)) => IInv'
<1> SUFFICES ASSUME IInv, ShowDenied(c) \/ CallKilled(c) PROVE IInv'
  OBVIOUS
<1>1. UNCHANGED <<daemon, log, submit>> /\ call' = [call EXCEPT ![c] = NoCall]
  BY DEF ShowDenied, CallKilled
<1>2. /\ call' \in [Calls -> CallHook] /\ call'[c] = NoCall
      /\ \A d \in Calls : d # c => call'[d] = call[d]
  BY <1>1, NothingInHand DEF IInv, Types, CallType
<1>3. Told(c) \subseteq Text \/ call[c].at = "idle"
  <2> SUFFICES ASSUME call[c].at # "idle" PROVE Told(c) \subseteq Text
    OBVIOUS
  <2>1. call[c].tool \in Tools /\ call[c].version \in Versions
    BY DEF IInv, Types, CallType
  <2>2. [tool |-> call[c].tool, version |-> call[c].version, full |-> TRUE] \in Text
    BY <2>1 DEF Text
  <2> QED
    BY <2>2 DEF Told
<1>4. seen' \subseteq Text /\ unshown' \subseteq Text
  BY <1>3 DEF ShowDenied, CallKilled, Shown, NotShown, IInv, Types
<1>5. Types'
  BY <1>1, <1>2, <1>4, NothingInHand DEF IInv, Types, SubmitType, CallType
<1>6. ASSUME NEW text \in Text, Backed(text), Holds(text) PROVE Backed(text)'
  <2>1. \A d \in Calls : d # c => Told(d)' = Told(d)
    BY <1>2 DEF Told
  <2>2. CASE ShowDenied(c)
    BY <1>1, <1>2, <1>6, <2>1, <2>2 DEF ShowDenied, Shown, Backed, Coming
  <2>3. CASE CallKilled(c)
    BY <1>1, <1>2, <1>6, <2>1, <2>3 DEF CallKilled, NotShown, Backed, Coming
  <2> QED
    BY <2>2, <2>3
<1> QED
  BY <1>1, <1>5, <1>6, LinesKept

LEMMA LookUpInv ==
    ASSUME NEW c \in Calls, NEW t \in Tools, NEW v \in Versions
    PROVE  IInv /\ LookUp(c, t, v) => IInv'
<1> SUFFICES ASSUME IInv, LookUp(c, t, v) PROVE IInv'
  OBVIOUS
<1> DEFINE hook == [NoCall EXCEPT !.at = "looked", !.tool = t, !.version = v]
           text == [tool |-> t, version |-> v, full |-> TRUE]
<1>1. /\ UNCHANGED <<daemon, log, submit>> /\ call[c].at = "idle"
      /\ seen' = seen \cup {text} /\ unshown' = unshown \ {text}
      /\ call' = [call EXCEPT ![c] = hook]
  BY DEF LookUp, Shown
<1>2. hook \in CallHook /\ hook.at = "looked" /\ hook.tool = t /\ hook.version = v
  BY NothingInHand DEF NoCall, CallHook
<1>3. text \in Text
  BY DEF Text
<1> HIDE DEF hook, text
<1>4. call' \in [Calls -> CallHook] /\ call'[c] = hook
      /\ \A d \in Calls : d # c => call'[d] = call[d]
  BY <1>1, <1>2 DEF IInv, Types, CallType
<1>5. Types'
  BY <1>1, <1>2, <1>3, <1>4 DEF IInv, Types, SubmitType, CallType
<1>6. \A x \in Text : Backed(x) => Backed(x)'
  BY <1>1, <1>4 DEF Backed, Coming, Told
<1> QED
  BY <1>1, <1>5, <1>6, LinesKept

\* The hook after a look-up touches the catalog only.
LEMMA CaptureInv ==
    ASSUME NEW c \in Calls PROVE IInv /\ (Merge(c) \/ Capture(c)) => IInv'
<1> SUFFICES ASSUME IInv, Merge(c) \/ Capture(c) PROVE IInv'
  OBVIOUS
<1>1. UNCHANGED <<daemon, seen, submit, unshown>> /\ call[c].at \in {"looked", "merged"}
  BY DEF Merge, Capture
<1>2. call[c] \in CallHook /\ call[c].tool \in Tools /\ call[c].version \in Versions
  BY <1>1 DEF IInv, Types, CallType
<1>3. CASE Merge(c)
  <2> DEFINE merged == [log.catalog EXCEPT ![call[c].tool] = call[c].version]
             hook == [call[c] EXCEPT !.at = "merged", !.catalog = merged]
  <2>1. merged \in Catalog
    BY <1>2 DEF IInv, Types, LogType, Catalog
  <2>2. call' = [call EXCEPT ![c] = hook] /\ log' = log
    BY <1>2, <1>3 DEF Merge, IInv, Types, CallType
  <2> HIDE DEF merged
  <2>3. /\ hook \in CallHook /\ hook.at = "merged"
        /\ hook.tool = call[c].tool /\ hook.version = call[c].version
    BY <1>2, <2>1 DEF CallHook
  <2> HIDE DEF hook
  <2> QED
    BY <1>1, <1>2, <2>2, <2>3, CallGoesOn DEF IInv, Types
<1>4. CASE Capture(c)
  <2>1. log'.tools = log.tools /\ log' \in LogType
    BY <1>2, <1>4, CatalogKeepsLines DEF Capture, IInv, Types, CallHook
  <2>2. call' = [call EXCEPT ![c] = NoCall]
    BY <1>4 DEF Capture
  <2> QED
    BY <1>1, <2>1, <2>2, NothingInHand, CallGoesOn
<1> QED
  BY <1>3, <1>4

-----------------------------------------------------------------------------

\* With no hook under way nothing is skipped, so a marker may forget everything;
\* without one the history names what the log still holds.
LEMMA CompactInv == IInv /\ (Compact \/ CompactUnmarked) => IInv'
<1> SUFFICES ASSUME IInv, Compact \/ CompactUnmarked PROVE IInv'
  OBVIOUS
<1>1. /\ UNCHANGED <<daemon, submit, call>> /\ seen' = {} /\ submit.skipped = {}
      /\ unshown' \subseteq Text
  BY DEF Compact, CompactUnmarked, Quiet, IInv, Types, SubmitType
<1>2. log' \in LogType
  <2>1. Empty \in LogType
    BY NothingInHand DEF Empty, LogType
  <2> QED
    BY <2>1 DEF Compact, CompactUnmarked, IInv, Types
<1>3. Types'
  BY <1>1, <1>2 DEF IInv, Types, SubmitType, CallType
<1>4. ASSUME NEW text \in Text, Holds(text)' PROVE text \in unshown'
  <2>1. CASE Compact
    BY <1>4, <2>1 DEF Compact, Empty, Holds, Range, Text
  <2>2. CASE CompactUnmarked
    BY <1>4, <2>2 DEF CompactUnmarked, Holds
  <2> QED
    BY <2>1, <2>2
<1> QED
  BY <1>1, <1>3, <1>4 DEF IInv, LoggedIsSeen, SkippedIsLogged

LEMMA DaemonChangesInv == IInv /\ DaemonChanges => IInv'
<1> SUFFICES ASSUME IInv, DaemonChanges PROVE IInv'
  OBVIOUS
<1>1. UNCHANGED <<log, seen, submit, call, unshown>> /\ daemon' \in Catalog
  BY DEF DaemonChanges, IInv, Types, Catalog
<1>2. Types'
  BY <1>1 DEF IInv, Types, SubmitType, CallType
<1>3. \A text \in Text : Backed(text) => Backed(text)'
  BY <1>1 DEF Backed, Coming, Told
<1> QED
  BY <1>1, <1>2, <1>3, LinesKept

LEMMA StutterInv == IInv /\ UNCHANGED vars => IInv'
<1> SUFFICES ASSUME IInv, UNCHANGED vars PROVE IInv'
  OBVIOUS
<1>1. Types'
  BY DEF IInv, vars, Types, SubmitType, CallType
<1>2. \A text \in Text : Backed(text) => Backed(text)'
  BY DEF vars, Backed, Coming, Told
<1> QED
  BY <1>1, <1>2, LinesKept DEF vars

LEMMA NextInv == IInv /\ [Next]_vars => IInv'
<1> SUFFICES ASSUME IInv, [Next]_vars PROVE IInv'
  OBVIOUS
<1>1. CASE Ask BY <1>1, AskInv
<1>2. CASE SubmitStep
  BY <1>2, AnswerInv, ReadLinesInv, LogToolsInv, SubmitGoesOn, SubmitEnds DEF SubmitStep
<1>3. CASE LogFails BY <1>3, SubmitGoesOn
<1>4. CASE SubmitKilled BY <1>4, SubmitEnds
<1>5. ASSUME NEW c \in Calls, CallStep(c) PROVE IInv'
  BY <1>5, DenyGoesOn, LogDeniedInv, CallEnds, CaptureInv DEF CallStep
<1>6. ASSUME NEW c \in Calls, LogDeniedFails(c) PROVE IInv'
  BY <1>6, DenyGoesOn
<1>7. ASSUME NEW c \in Calls, CallKilled(c) PROVE IInv'
  BY <1>7, CallEnds
<1>8. ASSUME NEW c \in Calls, NEW t \in Tools, Deny(c, t) PROVE IInv'
  BY <1>8, DenyInv
<1>9. ASSUME NEW c \in Calls, NEW t \in Tools, NEW v \in Versions, LookUp(c, t, v)
      PROVE  IInv'
  BY <1>9, LookUpInv
<1>10. CASE Compact \/ CompactUnmarked BY <1>10, CompactInv
<1>11. CASE DaemonChanges BY <1>11, DaemonChangesInv
<1>12. CASE UNCHANGED vars BY <1>12, StutterInv
<1> QED
  BY <1>1, <1>2, <1>3, <1>4, <1>5, <1>6, <1>7, <1>8, <1>9, <1>10, <1>11, <1>12 DEF Next

LEMMA SpecIInv == Spec => []IInv
BY InitInv, NextInv, PTL DEF Spec

\* Whatever hooks run side by side, read and write between each other's steps, die or
\* fail to write, a line of the log stands for a text that is in the model's context in
\* that version and form or about to be printed, but for those that a dead hook, an
\* unmarked compaction or a deny about a changed definition left behind
\* (_persist_session_log_response before the output, persist_pre_tool_deny_exposure).
THEOREM LoggedSeen == Spec => []LoggedIsSeen
<1>1. IInv => LoggedIsSeen
  BY DEF IInv
<1> QED
  BY <1>1, SpecIInv, PTL

\* So the gate of the daemon leaves a definition out of its answer only when the model
\* has that version of it (gate_and_filter_tools, whose "skip" drops the tool).
THEOREM SkippedSeen == Spec => []SkippedIsSeen
BY SkippedFromLogged, SpecIInv, PTL

-----------------------------------------------------------------------------

Bounded == log.prompts \in 0 .. Threshold + 1 /\ events \in 0 .. MaxEvents

LEMMA BoundedStep == ASSUME IInv, Bounded, [Next]_vars PROVE Bounded'
<1>1. log'.prompts \in {0, log.prompts}
        \/ (log.prompts <= Threshold /\ log'.prompts = log.prompts + 1)
  <2>1. \A catalog : WithCatalog(catalog).prompts = log.prompts
    BY DEF WithCatalog, IInv, Types, LogType
  <2>2. CASE LogPrompt
    BY <2>2, SessionAssumption DEF LogPrompt, IInv, Types, LogType
  <2>3. CASE LogTools
    BY <2>3 DEF LogTools, IInv, Types, LogType
  <2>4. CASE Compact
    BY <2>4 DEF Compact, Empty
  <2>5. ASSUME NEW c \in Calls, LogDenied(c) PROVE log'.prompts = log.prompts
    BY <2>5 DEF LogDenied, IInv, Types, LogType
  <2>6. ASSUME LogCatalog \/ \E c \in Calls : Capture(c) PROVE log'.prompts = log.prompts
    BY <2>1, <2>6 DEF LogCatalog, Capture
  <2> QED
    BY <2>2, <2>3, <2>4, <2>5, <2>6
       DEF Next, vars, Ask, SubmitStep, Answer, ReadLines, Show, LogFails, SubmitKilled,
           CallStep, JudgeDenied, ReadDenied, CheckDenied, ShowDenied, Merge,
           LogDeniedFails, CallKilled, Deny, LookUp, CompactUnmarked, DaemonChanges
<1>2. events' = events \/ (events < MaxEvents /\ events' = events + 1)
  BY DEF Next, vars, Event, Ask, SubmitStep, Answer, ReadLines, LogTools, LogCatalog,
         LogPrompt, Show, LogFails, SubmitKilled, CallStep, JudgeDenied, ReadDenied,
         CheckDenied, LogDenied, ShowDenied, Merge, Capture, LogDeniedFails, CallKilled,
         Deny, LookUp, Compact, CompactUnmarked, DaemonChanges
<1> QED
  BY <1>1, <1>2, SessionAssumption DEF Bounded

\* Log, context, history and hooks have their types in every reachable state; lines may
\* repeat.
THEOREM TypeCorrect == Spec => []TypeOK
<1>1. Init => Bounded
  BY SessionAssumption DEF Init, Empty, Bounded
<1>2. IInv /\ Bounded /\ [Next]_vars => Bounded'
  BY BoundedStep
<1>3. IInv /\ Bounded => TypeOK
  BY DEF IInv, Types, LogType, SubmitType, CallType, Bounded, TypeOK
<1> QED
  BY <1>1, <1>2, <1>3, SpecIInv, PTL DEF Spec
=============================================================================
