--------------------------- MODULE WebPagesProofs ---------------------------
(***************************************************************************)
(* Proofs about the Web Serial pages: the commands are settled one by one, *)
(* a response is not mixed up with another, and the CAN monitor remembers  *)
(* the filters of the controller, for every number of commands, upsets and *)
(* filters.                                                                *)
(***************************************************************************)
EXTENDS WebPages, SequenceTheorems, FiniteSetTheorems, FunctionTheorems, WellFoundedInduction, TLAPS

----------------------------------------------------------------------------
(* The inductive invariant *)

Tokens == [of : Nat, filter : Int]
Texts == {text \in SUBSET Tokens : IsFiniteSet(text)}
Pieces == [output : Texts, prompt : BOOLEAN]
Kinds == {"query", "stop", "bitrate", "mode", "add", "start", "remove"}
Ends == {"none", "prompt", "timeout", "rejected"}
Commands == [id : Nat \ {0}, what : Kinds, arg : Int]
Lines == Commands \cup {None}

PageTypes ==
    /\ conn \in {"closed", "open", "closing", "released"}
    /\ broken \in BOOLEAN
    /\ queue \in Seq(Commands)
    /\ running \in Lines
    /\ pending \in [on : BOOLEAN, text : Texts]
    /\ last \in [id : Nat, end : Ends, text : Texts, quiet : BOOLEAN]
    /\ issued \in 0 .. MAX_COMMANDS
    /\ timers \subseteq 1 .. issued
    /\ quiet \in BOOLEAN /\ own \in BOOLEAN /\ cut \in BOOLEAN

BoardTypes ==
    /\ writes \in Seq(Lines)
    /\ dev \in Seq(Lines)
    /\ line \in Seq(Pieces)
    /\ installed \subseteq 0 .. MAX_FILTERS - 1
    /\ started \in BOOLEAN

ScriptTypes ==
    /\ page \in {"bench", "monitor"}
    /\ polling \in BOOLEAN /\ capturing \in BOOLEAN
    /\ script \in [fn : {"idle", "start", "stop"}, todo : Seq(Kinds), wait : Nat]
    /\ filterIds \in Seq(Int)

\* The task of the command before the first in the queue has run.
Begun == issued - Len(queue)

\* commandTail starts the commands one by one, in the order they were given,
\* each once the one before it is settled.
InOrder ==
    /\ Len(queue) <= issued
    /\ \A i \in 1 .. Len(queue) : queue[i].id = Begun + i
    /\ running # None => running.id = Begun /\ last.id = Begun - 1
    /\ running = None => last.id = Begun

Bare(q) == \A i \in 1 .. Len(q) : q[i] = None

\* What runs is pending, with its timer and at most its own write after all
\* others, until disconnect forgets it: then it runs for ever, unwritten.
OnePending ==
    /\ running # None /\ ~cut =>
          /\ pending.on /\ timers = {running.id} /\ conn # "closed"
          /\ writes # <<>> => writes[Len(writes)] = running
    /\ running = None => ~cut /\ ~pending.on /\ timers = {}
    /\ cut => ~pending.on /\ Bare(writes)

\* Nothing but the running command and its output is on its way, if the board
\* owed nothing as it was written.
Undisturbed ==
    quiet /\ running # None =>
        /\ \A i \in 1 .. Len(writes) : writes[i] \in {running, None}
        /\ \A i \in 1 .. Len(dev) : dev[i] \in {running, None}
        /\ \A i \in 1 .. Len(line) : Sources(line[i].output) \subseteq {running.id}
        /\ Sources(pending.text) \subseteq {running.id}

\* A text without any command's output, and a line without one.
Blank(text) == \A t \in text : t.of = 0
Mute(q) == \A i \in 1 .. Len(q) : Blank(q[i].output)

\* Command c is the last of q, the only one.
EndsIn(q, c) == q # <<>> /\ \A i \in 1 .. Len(q) : q[i] = IF i = Len(q) THEN c ELSE None

\* Where the running command, or its output, is.
Sent == EndsIn(writes, running) /\ Bare(dev) /\ Mute(line) /\ Blank(pending.text)
Received == writes = <<>> /\ EndsIn(dev, running) /\ Mute(line) /\ Blank(pending.text)
Printed ==
    /\ writes = <<>> /\ dev = <<>> /\ Blank(pending.text)
    /\ \E i \in 1 .. Len(line) :
          /\ \A t \in line[i].output : t.of = running.id /\ line[i].output = {t}
          /\ \A j \in 1 .. Len(line) : j # i => Blank(line[j].output)
Arrived ==
    /\ writes = <<>> /\ dev = <<>> /\ Mute(line)
    /\ \A t \in pending.text : t.of \in {0, running.id}
    /\ \A t, u \in pending.text : t.of # 0 /\ u.of # 0 => t = u

Traced == Sent \/ Received \/ Printed \/ Arrived

\* As long as every command was answered with its own output, no output is
\* left when a command is settled, and the running one is in one place.
Answered ==
    own =>
        /\ last.end # "rejected"
        /\ last.id # 0 => Sources(last.text) = {last.id}
        /\ \A t, u \in last.text : t = u
        /\ running = None => Bare(writes) /\ Bare(dev) /\ Mute(line)
        /\ running # None /\ ~cut => Traced

\* The filter that the first command of the list, a "remove", is about.
Nth == Len(filterIds) + 2 - Len(script.todo)

StopList(todo) ==
    /\ todo # <<>> /\ Len(todo) <= Len(filterIds) + 1
    /\ \A i \in 1 .. Len(todo) : todo[i] = IF i = Len(todo) THEN "stop" ELSE "remove"

StartList(todo) == todo # <<>> /\ \A i \in 1 .. Len(todo) : todo[i] # "remove"

Asked(c) ==
    /\ c.what = Head(script.todo)
    /\ c.what = "remove" => c.arg = filterIds[Nth]

\* The monitor's function waits for the one command that it gave to
\* runCommand, and does nothing else until it is settled.
InStep ==
    page = "monitor" =>
        /\ script.fn = "idle" => script = Idle
        /\ script.fn = "start" => StartList(script.todo)
        /\ script.fn = "stop" => StopList(script.todo)
        /\ script.wait = 0 => queue = <<>> /\ running = None
        /\ script.wait # 0 =>
              /\ script.wait = issued /\ Len(queue) <= 1
              /\ \A i \in 1 .. Len(queue) : Asked(queue[i])
              /\ running # None => queue = <<>> /\ Asked(running)
              /\ script.fn = "stop" /\ Len(script.todo) = 1 => filterIds = <<>>

\* The filters the controller has before the awaited command is executed: those
\* remembered, without the ones that stopCapture removed.
Before ==
    IF script.fn = "stop"
    THEN ToSet(filterIds) \ {filterIds[i] : i \in 1 .. Nth - 1}
    ELSE ToSet(filterIds)

\* The filters after the command, whose output names filter f.
After(f) ==
    CASE Head(script.todo) = "add" -> Before \cup ({f} \ {-1})
      [] Head(script.todo) = "remove" -> Before \ {filterIds[Nth]}
      [] OTHER -> Before

\* As long as every command was answered with its own output, the controller
\* has the filters that the monitor's function takes it to have.
Follows ==
    page = "monitor" /\ own /\ ~cut =>
        /\ script.wait = 0 => installed = Before
        /\ queue # <<>> => installed = Before
        /\ running # None /\ (writes # <<>> \/ dev # <<>>) => installed = Before
        /\ running # None =>
              \A i \in 1 .. Len(line) : \A t \in line[i].output :
                  t.of # 0 => installed = After(t.filter)
        /\ running # None => \A t \in pending.text : t.of # 0 => installed = After(t.filter)
        /\ script.wait # 0 /\ last.id = script.wait =>
              \A t \in last.text : installed = After(t.filter)
        /\ script = Idle /\ ~capturing => filterIds = <<>>

PagesIInv ==
    /\ PageTypes /\ BoardTypes /\ ScriptTypes
    /\ InOrder /\ OnePending
    /\ Undisturbed /\ OwnAnswer
    /\ Answered /\ InStep /\ Follows
----------------------------------------------------------------------------
(* Finite texts, and the operators of the model *)

\* A finite set of integers, written as a sequence, keeps its elements.
LEMMA SetToSeqType ==
    ASSUME NEW S \in SUBSET Int, IsFiniteSet(S)
    PROVE  SetToSeq(S) \in Seq(Int)
  <1>1. Cardinality(S) \in Nat /\ ExistsBijection(1 .. Cardinality(S), S)
    BY FS_CardinalityType
  <1>2. PICK f : f \in Bijection(1 .. Cardinality(S), S)
    BY <1>1 DEF ExistsBijection
  <1>3. f \in [1 .. Cardinality(S) -> S] /\ IsInjective(f)
    BY <1>2 DEF Bijection, Injection
  <1>4. SetToSeq(S) \in [1 .. Cardinality(S) -> S]
    BY <1>3 DEF SetToSeq
  <1>5. SetToSeq(S) \in [1 .. Cardinality(S) -> Int]
    BY <1>4
  <1> QED  BY <1>1, <1>5

\* The sequence of one element.
LEMMA SetToSeqOne ==
    ASSUME NEW x \in Int
    PROVE  SetToSeq({x}) = <<x>>
  <1>1. Cardinality({x}) = 1  BY FS_Singleton
  <1>2. <<x>> \in [1 .. 1 -> {x}] /\ IsInjective(<<x>>)  BY DEF IsInjective
  <1>3. SetToSeq({x}) \in [1 .. 1 -> {x}]  BY <1>1, <1>2 DEF SetToSeq
  <1> QED  BY <1>3

\* The sequence of nothing.
LEMMA SetToSeqNone == SetToSeq({}) = <<>>
  <1>1. Cardinality({}) = 0  BY FS_EmptySet
  <1>2. <<>> \in [1 .. 0 -> {}] /\ IsInjective(<<>>)  BY DEF IsInjective
  <1>3. SetToSeq({}) \in [1 .. 0 -> {}]  BY <1>1, <1>2 DEF SetToSeq
  <1> QED  BY <1>3

\* parseFilterId finds finitely many filters.
LEMMA ParsedType ==
    ASSUME NEW text \in Texts
    PROVE  parseFilterId(text) \in SUBSET Int /\ IsFiniteSet(parseFilterId(text))
  <1> DEFINE named == {t \in text : t.filter # -1}
             first == {u \in named : \A v \in named : u.of <= v.of}
             F == [t \in first |-> t.filter]
  <1>1. IsFiniteSet(first)
    <2>1. first \in SUBSET text  OBVIOUS
    <2> QED  BY <2>1, FS_Subset DEF Texts
  <1>2. parseFilterId(text) = {t.filter : t \in first}  BY DEF parseFilterId
  <1>3. F \in Surjection(first, parseFilterId(text))
    BY <1>2, Fun_IsSurj
  <1>4. IsFiniteSet(parseFilterId(text))  BY <1>1, <1>3, FS_Surjection
  <1>5. parseFilterId(text) \in SUBSET Int  BY <1>2 DEF Texts, Tokens
  <1> QED  BY <1>4, <1>5

\* The free filter is one of the controller's, and not in use.
LEMMA FreeFilterType ==
    /\ FreeFilter \in Int
    /\ FreeFilter # -1 => FreeFilter \in (0 .. MAX_FILTERS - 1) \ installed
  <1> DEFINE free == (0 .. MAX_FILTERS - 1) \ installed
  <1>1. CASE free = {}  BY <1>1 DEF FreeFilter
  <1>2. CASE free # {}
    <2>1. free \subseteq Nat  BY WebAssumption
    <2>2. PICK x \in free : \A y \in free : ~(<<y, x>> \in OpToRel(<, Nat))
      BY <1>2, <2>1, NatLessThanWellFounded, WFMin
    <2>3. \A y \in free : ~(y < x)  BY <2>1, <2>2 DEF OpToRel
    <2>4. \A y \in free : x <= y  BY <2>1, <2>3
    <2>5. FreeFilter \in free  BY <1>2, <2>4 DEF FreeFilter
    <2> QED  BY <2>1, <2>5
  <1> QED  BY <1>1, <1>2

\* Texts are put together and stay finite.
LEMMA TextTypes ==
    /\ {} \in Texts
    /\ \A t \in Tokens : {t} \in Texts
    /\ \A s, t \in Texts : s \cup t \in Texts
  BY FS_EmptySet, FS_Singleton, FS_Union DEF Texts

\* None is no command.
LEMMA NoneIsNone ==
    /\ None \notin Commands
    /\ \A c \in Lines : c.id \in Nat /\ (c # None => c \in Commands /\ c.id > 0)
    /\ None.id = 0 /\ None.what = "none"
  BY DEF None, Commands, Lines

----------------------------------------------------------------------------
(* Every step keeps the invariant *)

\* What a command is given when the monitor's function reaches it.
LEMMA IssueArgument ==
    ASSUME ScriptTypes, InStep, Issue
    PROVE  /\ Head(script.todo) \in Kinds
           /\ Head(script.todo) = "remove" =>
                 /\ script.fn = "stop" /\ Nth \in 1 .. Len(filterIds)
                 /\ filterIds[Nth] \in Int
  <1>1. page = "monitor" /\ script.todo # <<>> /\ script.todo \in Seq(Kinds)
    BY DEF Issue, ScriptTypes
  <1>2. Head(script.todo) \in Kinds /\ Head(script.todo) = script.todo[1]
        /\ Len(script.todo) \in Nat /\ Len(script.todo) > 0
    BY <1>1
  <1>3. ASSUME Head(script.todo) = "remove"
        PROVE  script.fn = "stop" /\ Nth \in 1 .. Len(filterIds) /\ filterIds[Nth] \in Int
    <2>1. script.fn # "idle"  BY <1>1 DEF InStep, Idle
    <2>2. script.fn # "start"
      BY <1>1, <1>2, <1>3 DEF InStep, StartList
    <2>3. script.fn = "stop"  BY <2>1, <2>2 DEF ScriptTypes
    <2>4. Len(script.todo) <= Len(filterIds) + 1 /\ Len(script.todo) # 1
      BY <1>1, <1>2, <1>3, <2>3 DEF InStep, StopList
    <2>5. filterIds \in Seq(Int) /\ Len(filterIds) \in Nat  BY DEF ScriptTypes
    <2>6. Nth \in 1 .. Len(filterIds)
      <3>1. \A m, n \in Nat : m > 0 /\ m # 1 /\ m <= n + 1 => n + 2 - m \in 1 .. n
        OBVIOUS
      <3> QED  BY <3>1, <1>2, <2>4, <2>5 DEF Nth
    <2> QED  BY <2>3, <2>5, <2>6
  <1> QED  BY <1>2, <1>3

\* What a step does to the serial connection.
LEMMA SerialSteps ==
    ASSUME ScriptTypes, InStep, [Next]_vars
    PROVE  \/ UNCHANGED serialVars
           \/ \E what \in Kinds, arg \in Int : runCommand(what, arg)
           \/ runCommandUnlocked
           \/ SerialNext
  <1>1. CASE Issue
    <2>1. runCommand(Head(script.todo), IF Head(script.todo) = "remove" THEN filterIds[Nth] ELSE -1)
      BY <1>1 DEF Issue, Nth
    <2>2. Head(script.todo) \in Kinds  BY <1>1, IssueArgument
    <2>3. (IF Head(script.todo) = "remove" THEN filterIds[Nth] ELSE -1) \in Int
      BY <1>1, IssueArgument
    <2> QED  BY <2>1, <2>2, <2>3, Zenon
  <1>2. CASE Continue  BY <1>2 DEF Continue
  <1>3. CASE Press \/ startPolling \/ PollTick
    <2>1. runCommand("query", -1)  BY <1>3 DEF Press, startPolling, PollTick
    <2>2. "query" \in Kinds /\ -1 \in Int  BY DEF Kinds
    <2> QED  BY <2>1, <2>2, Zenon
  <1>4. CASE stopPolling \/ startCapture \/ stopCapture
    BY <1>4 DEF stopPolling, startCapture, stopCapture
  <1>5. CASE UNCHANGED vars  BY <1>5 DEF vars
  <1> QED  BY <1>1, <1>2, <1>3, <1>4, <1>5 DEF Next, SameTurn, Serial, Click

\* The types of the page's and of the board's variables.
LEMMA SerialTypesStep ==
    ASSUME PagesIInv, [Next]_vars
    PROVE  PageTypes' /\ BoardTypes'
  <1> USE WebAssumption
  <1>0. /\ PageTypes /\ BoardTypes /\ InOrder /\ OnePending
        /\ issued \in Nat /\ Len(queue) \in Nat
    BY DEF PagesIInv, PageTypes
  <1>n. None \in Lines  BY DEF Lines
  <1>1. CASE UNCHANGED serialVars
    BY <1>0, <1>1 DEF PageTypes, BoardTypes, serialVars, pageVars, boardVars
  <1>2. ASSUME NEW what \in Kinds, NEW arg \in Int, runCommand(what, arg)
        PROVE  PageTypes' /\ BoardTypes'
    <2>1. [id |-> issued + 1, what |-> what, arg |-> arg] \in Commands
      BY <1>0 DEF Commands
    <2>2. queue' \in Seq(Commands)  BY <1>0, <1>2, <2>1 DEF runCommand, PageTypes
    <2>3. issued' \in 0 .. MAX_COMMANDS /\ timers' \subseteq 1 .. issued'
      BY <1>0, <1>2 DEF runCommand, PageTypes
    <2> QED  BY <1>0, <1>2, <2>2, <2>3 DEF runCommand, PageTypes, BoardTypes, boardVars
  <1>3. CASE runCommandUnlocked
    <2>1. queue \in Seq(Commands) /\ queue # <<>> /\ running = None
      BY <1>0, <1>3 DEF runCommandUnlocked, PageTypes
    <2>2. Head(queue) \in Commands /\ Tail(queue) \in Seq(Commands) /\ Head(queue) = queue[1]
          /\ Len(queue) > 0
      BY <2>1
    <2>3. Head(queue).id \in 1 .. issued  BY <1>0, <2>2 DEF InOrder, Begun
    <2>4. queue' \in Seq(Commands)  BY <1>3, <2>2 DEF runCommandUnlocked
    <2>5. Head(queue) \in Lines /\ Append(writes, Head(queue)) \in Seq(Lines)
      BY <1>0, <2>2 DEF Lines, BoardTypes
    <2>6. quiet' \in BOOLEAN /\ own' \in BOOLEAN
      BY <1>0, <1>3, Zenon DEF runCommandUnlocked, PageTypes, Silent
    <2>7. /\ running' \in Lines /\ writes' \in Seq(Lines)
          /\ timers' \subseteq 1 .. issued
          /\ pending' \in [on : BOOLEAN, text : Texts]
          /\ last' \in [id : Nat, end : Ends, text : Texts, quiet : BOOLEAN]
      <3>1. CASE UNCHANGED <<running, pending, timers, quiet, writes>>
        <4>1. last' = [id |-> Head(queue).id, end |-> "rejected", text |-> {}, quiet |-> FALSE]
          BY <1>3, <2>1, <2>2, <3>1, NoneIsNone DEF runCommandUnlocked
        <4> QED  BY <1>0, <2>3, <3>1, <4>1, TextTypes DEF PageTypes, BoardTypes, Ends
      <3>2. CASE /\ running' = Head(queue) /\ pending' = [on |-> TRUE, text |-> {}]
                 /\ timers' = timers \cup {Head(queue).id}
                 /\ writes' = Append(writes, Head(queue)) /\ UNCHANGED last
        BY <1>0, <2>3, <2>5, <3>2, TextTypes DEF PageTypes
      <3> QED  BY <1>3, <3>1, <3>2 DEF runCommandUnlocked
    <2> QED
      BY <1>0, <1>3, <2>4, <2>6, <2>7 DEF runCommandUnlocked, PageTypes, BoardTypes, boardVars
  <1>4. CASE Open
    <2>1. writes' \in Seq(Lines)  BY <1>0, <1>n, <1>4 DEF Open, BoardTypes
    <2>2. PageTypes'  BY <1>0, <1>4 DEF Open, PageTypes, pageVars
    <2> QED  BY <1>0, <1>4, <2>1, <2>2 DEF Open, BoardTypes, boardVars
  <1>5. CASE CancelReader \/ ReleaseWriter
    BY <1>0, <1>5 DEF CancelReader, ReleaseWriter, PageTypes, BoardTypes, pageVars, boardVars
  <1>6. CASE Closed
    <2>1. cut' \in BOOLEAN  BY <1>0, <1>6, Zenon DEF Closed, PageTypes
    <2>2. pending' \in [on : BOOLEAN, text : Texts]  BY <1>6, TextTypes DEF Closed, Empty
    <2> QED  BY <1>0, <1>6, <2>1, <2>2 DEF Closed, PageTypes, BoardTypes, boardVars
  <1>7. CASE WriteDone
    <2>1. Head(writes) \in Lines /\ Tail(writes) \in Seq(Lines)
      BY <1>0, <1>7 DEF WriteDone, BoardTypes
    <2> QED  BY <1>0, <1>7, <2>1 DEF WriteDone, PageTypes, BoardTypes, pageVars
  <1>s. ASSUME NEW how \in Ends, NEW text \in Texts, Settle(how, text)
        PROVE  /\ last' \in [id : Nat, end : Ends, text : Texts, quiet : BOOLEAN]
               /\ own' \in BOOLEAN /\ running' \in Lines
    <2>1. running.id \in Nat  BY <1>0, NoneIsNone DEF PageTypes
    <2>2. own' \in BOOLEAN  BY <1>s, <1>0, Zenon DEF Settle, PageTypes
    <2> QED  BY <1>0, <1>n, <1>s, <2>1, <2>2 DEF Settle, PageTypes
  <1>e. Empty \in [on : BOOLEAN, text : Texts]  BY TextTypes DEF Empty
  <1>8. CASE WriteError
    <2>1. /\ last' \in [id : Nat, end : Ends, text : Texts, quiet : BOOLEAN]
          /\ own' \in BOOLEAN /\ running' \in Lines
      <3>1. CASE UNCHANGED <<running, last, own>>  BY <1>0, <3>1 DEF PageTypes
      <3>2. CASE Settle("rejected", {})
        <4>1. "rejected" \in Ends /\ {} \in Texts  BY TextTypes DEF Ends
        <4> QED  BY <1>s, <3>2, <4>1, Zenon
      <3> QED  BY <1>8, <3>1, <3>2 DEF WriteError
    <2>2. pending' \in [on : BOOLEAN, text : Texts] /\ timers' \subseteq timers
      BY <1>0, <1>8, <1>e DEF WriteError, PageTypes
    <2>3. broken' \in BOOLEAN /\ writes' \in Seq(Lines)  BY <1>8 DEF WriteError
    <2>4. PageTypes'  BY <1>0, <1>8, <2>1, <2>2, <2>3 DEF WriteError, PageTypes
    <2> QED  BY <1>0, <1>8, <2>3, <2>4 DEF WriteError, BoardTypes, boardVars
  <1>9. CASE readLoop
    <2> DEFINE text == pending.text \cup Head(line).output
    <2>1. Head(line) \in Pieces /\ Tail(line) \in Seq(Pieces)
      BY <1>0, <1>9 DEF readLoop, BoardTypes
    <2>2. text \in Texts  BY <1>0, <2>1, TextTypes DEF PageTypes, Pieces
    <2>3. /\ last' \in [id : Nat, end : Ends, text : Texts, quiet : BOOLEAN]
          /\ own' \in BOOLEAN /\ running' \in Lines
      <3>1. CASE UNCHANGED <<running, last, own>>  BY <1>0, <3>1 DEF PageTypes
      <3>2. CASE Settle("prompt", text)
        <4> HIDE DEF text
        <4>1. "prompt" \in Ends  BY DEF Ends
        <4> QED  BY <1>s, <2>2, <3>2, <4>1, Zenon
      <3> QED  BY <1>9, <3>1, <3>2 DEF readLoop, Finish
    <2>4. pending' \in [on : BOOLEAN, text : Texts] /\ timers' \subseteq timers
      BY <1>0, <1>9, <1>e, <2>2 DEF readLoop, Finish, PageTypes
    <2> QED  BY <1>0, <1>9, <2>1, <2>3, <2>4 DEF readLoop, PageTypes, BoardTypes, boardVars
  <1>10. ASSUME NEW c \in timers, Timeout(c)
         PROVE  PageTypes' /\ BoardTypes'
    <2>1. /\ last' \in [id : Nat, end : Ends, text : Texts, quiet : BOOLEAN]
          /\ own' \in BOOLEAN /\ running' \in Lines
      <3>1. CASE UNCHANGED <<running, last, own>>  BY <1>0, <3>1 DEF PageTypes
      <3>2. CASE Settle("timeout", pending.text)
        <4>1. "timeout" \in Ends /\ pending.text \in Texts  BY <1>0 DEF PageTypes, Ends
        <4> QED  BY <1>s, <3>2, <4>1, Zenon
      <3> QED  BY <1>10, <3>1, <3>2 DEF Timeout
    <2>2. pending' \in [on : BOOLEAN, text : Texts] /\ timers' \subseteq timers
      BY <1>0, <1>10, <1>e DEF Timeout, PageTypes
    <2> QED  BY <1>0, <1>10, <2>1, <2>2 DEF Timeout, PageTypes, BoardTypes, boardVars
  <1>11. CASE Execute
    <2> DEFINE c == Head(dev)
               filter == IF c.what = "add" THEN FreeFilter ELSE -1
               output == IF c = None THEN {} ELSE {[of |-> c.id, filter |-> filter]}
               first == [output |-> output, prompt |-> FALSE]
               second == [output |-> {}, prompt |-> TRUE]
    <2>1. c \in Lines /\ Tail(dev) \in Seq(Lines)
      BY <1>0, <1>11 DEF Execute, BoardTypes
    <2>2. filter \in Int /\ (filter # -1 => filter \in 0 .. MAX_FILTERS - 1)
      BY FreeFilterType
    <2>3. output \in Texts
      <3>1. c.id \in Nat  BY <2>1, NoneIsNone
      <3> HIDE DEF c, filter
      <3>2. [of |-> c.id, filter |-> filter] \in Tokens  BY <3>1, <2>2 DEF Tokens
      <3> QED  BY <3>2, TextTypes
    <2>4. first \in Pieces /\ second \in Pieces
      <3> HIDE DEF output
      <3> QED  BY <2>3, TextTypes DEF Pieces
    <2>5. line' = line \o <<first, second>>  BY <1>11 DEF Execute
    <2>6. line' \in Seq(Pieces)
      <3> HIDE DEF first, second
      <3> QED  BY <1>0, <2>4, <2>5 DEF BoardTypes
    <2>7. installed' \subseteq 0 .. MAX_FILTERS - 1
      <3>1. installed' \subseteq installed \cup ({filter} \ {-1})
        <4>1. installed' = CASE c.what = "add" -> installed \cup ({filter} \ {-1})
                             [] c.what = "remove" -> installed \ {c.arg}
                             [] OTHER -> installed
          BY <1>11 DEF Execute
        <4> HIDE DEF filter, c
        <4> QED  BY <4>1
      <3> HIDE DEF filter
      <3> QED  BY <1>0, <2>2, <3>1 DEF BoardTypes
    <2>8. started' \in BOOLEAN  BY <1>0, <1>11, Zenon DEF Execute, BoardTypes
    <2>9. dev' \in Seq(Lines)  BY <1>11, <2>1 DEF Execute
    <2>10. PageTypes' /\ writes' = writes
      BY <1>0, <1>11 DEF Execute, PageTypes, pageVars
    <2> QED  BY <1>0, <2>6, <2>7, <2>8, <2>9, <2>10 DEF BoardTypes
  <1>12. CASE FramePrinted
    <2> DEFINE piece == [output |-> {[of |-> 0, filter |-> -1]}, prompt |-> TRUE]
    <2>1. [of |-> 0, filter |-> -1] \in Tokens  BY DEF Tokens
    <2>2. piece \in Pieces  BY <2>1, TextTypes DEF Pieces
    <2>3. line' = Append(line, piece)  BY <1>12 DEF FramePrinted
    <2>4. line' \in Seq(Pieces)
      <3> HIDE DEF piece
      <3> QED  BY <1>0, <2>2, <2>3 DEF BoardTypes
    <2> QED  BY <1>0, <1>12, <2>4 DEF FramePrinted, PageTypes, BoardTypes, boardVars
  <1>13. CASE TextLost
    <2>1. line' \in Seq(Pieces)  BY <1>0, <1>13 DEF TextLost, BoardTypes
    <2> QED  BY <1>0, <1>13, <2>1 DEF TextLost, PageTypes, BoardTypes, boardVars, pageVars
  <1> QED
    BY <1>1, <1>2, <1>3, <1>4, <1>5, <1>6, <1>7, <1>8, <1>9, <1>10, <1>11, <1>12, <1>13, SerialSteps
    DEF PagesIInv, SerialNext, disconnect, Timers

\* The types of the page's own variables.
LEMMA ScriptTypesStep ==
    ASSUME PagesIInv, [Next]_vars
    PROVE  ScriptTypes'
  <1>0. /\ PageTypes /\ ScriptTypes /\ InStep
        /\ issued \in Nat
    BY DEF PagesIInv, PageTypes
  <1>1. CASE UNCHANGED <<script, filterIds, capturing, page>> /\ polling' \in BOOLEAN
    BY <1>0, <1>1 DEF ScriptTypes
  <1>2. CASE startCapture
    <2>1. PICK filters \in {<<>>, <<"add">>, <<"add", "add">>} :
             script' = [fn |-> "start", wait |-> 0,
                        todo |-> <<"stop", "bitrate", "mode">> \o filters \o <<"start">>]
      BY <1>2 DEF startCapture
    <2> DEFINE one == <<"add">>
               two == <<"add", "add">>
    <2>2. filters \in Seq(Kinds) /\ <<"start">> \in Seq(Kinds)
          /\ <<"stop", "bitrate", "mode">> \in Seq(Kinds)
      <3>1. <<>> \in Seq(Kinds)  OBVIOUS
      <3>2. one \in Seq(Kinds) /\ two \in Seq(Kinds)  BY DEF Kinds
      <3>3. <<"start">> \in Seq(Kinds)  BY DEF Kinds
      <3>4. <<"stop", "bitrate", "mode">> \in Seq(Kinds)  BY DEF Kinds
      <3>5. filters \in {<<>>, one, two}  OBVIOUS
      <3> HIDE DEF one, two
      <3> QED  BY <3>1, <3>2, <3>3, <3>4, <3>5
    <2>3. <<"stop", "bitrate", "mode">> \o filters \o <<"start">> \in Seq(Kinds)
      BY <2>2
    <2> HIDE DEF Kinds
    <2>4. script' \in [fn : {"idle", "start", "stop"}, todo : Seq(Kinds), wait : Nat]
      BY <2>1, <2>3
    <2> QED  BY <1>0, <1>2, <2>4 DEF startCapture, ScriptTypes
  <1>3. CASE stopCapture
    <2> DEFINE removes == [i \in DOMAIN filterIds |-> "remove"]
    <2>1. removes \in Seq(Kinds)  BY <1>0 DEF ScriptTypes, Kinds
    <2>2. <<"stop">> \in Seq(Kinds)  BY DEF Kinds
    <2>3. script' = [fn |-> "stop", wait |-> 0, todo |-> removes \o <<"stop">>]
      BY <1>3 DEF stopCapture
    <2> HIDE DEF removes
    <2>4. script' \in [fn : {"idle", "start", "stop"}, todo : Seq(Kinds), wait : Nat]
      BY <2>1, <2>2, <2>3
    <2> QED  BY <1>0, <1>3, <2>4 DEF stopCapture, ScriptTypes
  <1>4. CASE Issue
    <2>1. script' = [script EXCEPT !.wait = issued + 1] /\ filterIds' \in {<<>>, filterIds}
      BY <1>4 DEF Issue
    <2>2. <<>> \in Seq(Int)  OBVIOUS
    <2>3. filterIds' \in Seq(Int)  BY <1>0, <2>1, <2>2 DEF ScriptTypes
    <2>4. script' \in [fn : {"idle", "start", "stop"}, todo : Seq(Kinds), wait : Nat]
      <3>1. script \in [fn : {"idle", "start", "stop"}, todo : Seq(Kinds), wait : Nat]
        BY <1>0 DEF ScriptTypes
      <3>2. issued + 1 \in Nat  BY <1>0
      <3> QED  BY <2>1, <3>1, <3>2
    <2> QED  BY <1>0, <1>4, <2>3, <2>4 DEF Issue, ScriptTypes
  <1>5. CASE Continue
    <2> DEFINE what == Head(script.todo)
               rest == Tail(script.todo)
               found == IF what = "add" THEN parseFilterId(last.text) ELSE {}
    <2>1. SetToSeq(found) \in Seq(Int)
      BY <1>0, ParsedType, SetToSeqType, FS_EmptySet DEF PageTypes
    <2>2. script.todo # <<>>
      BY <1>0, <1>5 DEF Continue, InStep, StartList, StopList, Idle, ScriptTypes
    <2>3. rest \in Seq(Kinds)  BY <1>0, <2>2 DEF ScriptTypes
    <2>4. Idle \in [fn : {"idle", "start", "stop"}, todo : Seq(Kinds), wait : Nat]
      BY DEF Idle
    <2>5. script' \in {Idle, [script EXCEPT !.todo = rest, !.wait = 0]}
          /\ filterIds' \in {filterIds, filterIds \o SetToSeq(found)}
      <3>1. \/ script' = Idle /\ UNCHANGED filterIds
            \/ /\ filterIds' = filterIds \o SetToSeq(found)
               /\ script' = IF rest = <<>> THEN Idle
                            ELSE [script EXCEPT !.todo = rest, !.wait = 0]
        BY <1>5, Zenon DEF Continue
      <3> HIDE DEF found, rest
      <3> QED  BY <3>1
    <2>6. capturing' \in BOOLEAN  BY <1>0, <1>5, Zenon DEF Continue, ScriptTypes
    <2> HIDE DEF found, rest
    <2>7. script' \in [fn : {"idle", "start", "stop"}, todo : Seq(Kinds), wait : Nat]
          /\ filterIds' \in Seq(Int)
      <3>1. script \in [fn : {"idle", "start", "stop"}, todo : Seq(Kinds), wait : Nat]
            /\ filterIds \in Seq(Int)
        BY <1>0 DEF ScriptTypes
      <3>2. filterIds \o SetToSeq(found) \in Seq(Int)  BY <3>1, <2>1
      <3>3. [script EXCEPT !.todo = rest, !.wait = 0]
               \in [fn : {"idle", "start", "stop"}, todo : Seq(Kinds), wait : Nat]
        BY <3>1, <2>3
      <3> QED  BY <2>4, <2>5, <3>1, <3>2, <3>3
    <2> QED  BY <1>0, <1>5, <2>6, <2>7 DEF Continue, ScriptTypes
  <1>6. CASE Press \/ startPolling \/ PollTick \/ stopPolling
    BY <1>0, <1>1, <1>6 DEF Press, startPolling, PollTick, stopPolling, monitorVars, ScriptTypes
  <1>7. CASE Serial
    <2>1. polling' \in BOOLEAN  BY <1>0, <1>7, Zenon DEF Serial, ScriptTypes
    <2> QED  BY <1>1, <1>7, <2>1 DEF Serial, monitorVars
  <1>8. CASE runCommandUnlocked /\ UNCHANGED <<page, polling, monitorVars>>
    BY <1>0, <1>1, <1>8 DEF monitorVars, ScriptTypes
  <1>9. CASE UNCHANGED vars
    BY <1>0, <1>1, <1>9 DEF vars, monitorVars, ScriptTypes
  <1> QED
    BY <1>2, <1>3, <1>4, <1>5, <1>6, <1>7, <1>8, <1>9 DEF Next, SameTurn, Click

\* A step that settles a command settles the running one.
LEMMA SettlingSteps ==
    ASSUME OnePending, WriteError \/ readLoop \/ Timers
    PROVE  /\ UNCHANGED <<queue, issued, quiet, cut, conn, dev>>
           /\ \/ UNCHANGED <<running, last, own>>
              \/ /\ running # None /\ running' = None
                 /\ last'.id = running.id
                 /\ own' => own
  <1>1. CASE WriteError
    <2>1. UNCHANGED <<queue, issued, quiet, cut, conn, dev>>  BY <1>1 DEF WriteError, boardVars
    <2>2. \/ UNCHANGED <<running, last, own>>
          \/ running # None /\ Settle("rejected", {})
      BY <1>1 DEF WriteError
    <2>3. own' => own  BY <2>2, Zenon DEF Settle
    <2> QED  BY <2>1, <2>2, <2>3 DEF Settle
  <1>2. CASE readLoop
    <2>1. UNCHANGED <<queue, issued, quiet, cut, conn, dev>>  BY <1>2 DEF readLoop, boardVars
    <2>2. \/ UNCHANGED <<running, last, own>>
          \/ pending.on /\ Settle("prompt", pending.text \cup Head(line).output)
      BY <1>2 DEF readLoop, Finish
    <2>3. own' => own  BY <2>2, Zenon DEF Settle
    <2> QED  BY <2>1, <2>2, <2>3 DEF Settle, OnePending
  <1>3. CASE Timers
    <2>1. PICK c \in timers : Timeout(c)  BY <1>3 DEF Timers
    <2>2. UNCHANGED <<queue, issued, quiet, cut, conn, dev>>  BY <2>1 DEF Timeout, boardVars
    <2>3. \/ UNCHANGED <<running, last, own>>
          \/ pending.on /\ Settle("timeout", pending.text)
      BY <2>1 DEF Timeout
    <2>4. own' => own  BY <2>3, Zenon DEF Settle
    <2> QED  BY <2>2, <2>3, <2>4 DEF Settle, OnePending
  <1> QED  BY <1>1, <1>2, <1>3

\* Commands run in order, one by one.
LEMMA InOrderStep ==
    ASSUME PagesIInv, [Next]_vars
    PROVE  InOrder'
  <1>0. /\ PageTypes /\ InOrder /\ OnePending /\ ScriptTypes /\ InStep
        /\ issued \in Nat /\ Len(queue) \in Nat /\ queue \in Seq(Commands)
    BY DEF PagesIInv, PageTypes
  <1>1. CASE UNCHANGED <<queue, issued, running, last>>
    BY <1>0, <1>1 DEF InOrder, Begun
  <1>2. ASSUME NEW what \in Kinds, NEW arg \in Int, runCommand(what, arg)
        PROVE  InOrder'
    <2> DEFINE c == [id |-> issued + 1, what |-> what, arg |-> arg]
    <2>1. c \in Commands  BY <1>0 DEF Commands
    <2>2. queue' = Append(queue, c) /\ issued' = issued + 1 /\ UNCHANGED <<running, last>>
      BY <1>2 DEF runCommand
    <2>3. c.id = issued + 1  OBVIOUS
    <2> HIDE DEF c
    <2>4. /\ Len(queue') = Len(queue) + 1
          /\ \A i \in 1 .. Len(queue) : queue'[i] = queue[i]
          /\ queue'[Len(queue) + 1] = c
      BY <1>0, <2>1, <2>2, AppendProperties
    <2>5. Begun' = Begun  BY <1>0, <2>2, <2>4 DEF Begun
    <2>6. \A i \in 1 .. Len(queue') : queue'[i].id = Begun + i
      <3>1. \A i \in 1 .. Len(queue) : queue[i].id = Begun + i  BY <1>0 DEF InOrder
      <3>2. Begun + Len(queue) + 1 = issued + 1  BY <1>0 DEF Begun
      <3>3. Begun \in Int  BY <1>0 DEF Begun
      <3> TAKE i \in 1 .. Len(queue')
      <3>4. i \in 1 .. Len(queue) \/ i = Len(queue) + 1  BY <1>0, <2>4
      <3>5. CASE i \in 1 .. Len(queue)  BY <2>4, <3>1, <3>5
      <3>6. CASE i = Len(queue) + 1  BY <1>0, <2>3, <2>4, <3>2, <3>3, <3>6
      <3> QED  BY <3>4, <3>5, <3>6
    <2> QED  BY <1>0, <2>2, <2>4, <2>5, <2>6 DEF InOrder
  <1>3. CASE runCommandUnlocked
    <2>1. queue # <<>> /\ running = None /\ queue' = Tail(queue) /\ UNCHANGED issued
      BY <1>3 DEF runCommandUnlocked
    <2>2. /\ Len(queue') = Len(queue) - 1 /\ Len(queue) > 0
          /\ \A i \in 1 .. Len(queue') : queue'[i] = queue[i + 1]
          /\ Head(queue) = queue[1] /\ Head(queue) \in Commands
      BY <1>0, <2>1, HeadTailProperties
    <2>3. Begun' = Begun + 1 /\ Begun \in Int  BY <1>0, <2>1, <2>2 DEF Begun
    <2>4. Head(queue).id = Begun + 1 /\ last.id = Begun  BY <1>0, <2>1, <2>2 DEF InOrder
    <2>5. \A i \in 1 .. Len(queue') : queue'[i].id = Begun' + i
      <3> TAKE i \in 1 .. Len(queue')
      <3>1. i + 1 \in 1 .. Len(queue) /\ i \in Int  BY <1>0, <2>2
      <3>2. queue[i + 1].id = Begun + (i + 1)  BY <1>0, <3>1 DEF InOrder
      <3> QED  BY <2>2, <2>3, <3>1, <3>2
    <2>6. \/ running' = Head(queue) /\ Head(queue) # None /\ last' = last
          \/ running' = None /\ last'.id = Head(queue).id
      BY <1>3, <2>1, <2>2, NoneIsNone DEF runCommandUnlocked
    <2>7. Len(queue') <= issued'  BY <1>0, <2>1, <2>2 DEF InOrder
    <2>8. CASE running' = Head(queue) /\ Head(queue) # None /\ last' = last
      <3>1. running'.id = Begun' /\ last'.id = Begun' - 1  BY <2>3, <2>4, <2>8
      <3> QED  BY <2>5, <2>7, <2>8, <3>1 DEF InOrder
    <2>9. CASE running' = None /\ last'.id = Head(queue).id
      <3>1. last'.id = Begun'  BY <2>3, <2>4, <2>9
      <3> QED  BY <2>5, <2>7, <2>9, <3>1 DEF InOrder
    <2> QED  BY <2>6, <2>8, <2>9
  <1>4. CASE WriteError \/ readLoop \/ Timers
    BY <1>0, <1>1, <1>4, SettlingSteps DEF InOrder, Begun
  <1>5. CASE Open \/ disconnect \/ WriteDone \/ Execute \/ FramePrinted \/ TextLost
    <2>1. UNCHANGED <<queue, issued, running, last>>
      BY <1>5 DEF Open, disconnect, CancelReader, ReleaseWriter, Closed, WriteDone, Execute,
                  FramePrinted, TextLost, pageVars
    <2> QED  BY <1>1, <2>1
  <1>6. CASE UNCHANGED serialVars  BY <1>1, <1>6 DEF serialVars, pageVars
  <1> QED  BY <1>0, <1>2, <1>3, <1>4, <1>5, <1>6, SerialSteps DEF SerialNext

\* Adding to and taking from a sequence without commands.
LEMMA BareSequences ==
    ASSUME NEW q \in Seq(Lines), Bare(q)
    PROVE  /\ Bare(Append(q, None)) /\ Append(q, None) \in Seq(Lines)
           /\ q # <<>> => Head(q) = None /\ Tail(q) \in Seq(Lines) /\ Bare(Tail(q))
  <1>1. None \in Lines  BY DEF Lines
  <1>2. Bare(Append(q, None)) /\ Append(q, None) \in Seq(Lines)
    <2>1. /\ Len(Append(q, None)) = Len(q) + 1 /\ Len(q) \in Nat
          /\ \A i \in 1 .. Len(q) : Append(q, None)[i] = q[i]
          /\ Append(q, None)[Len(q) + 1] = None
          /\ Append(q, None) \in Seq(Lines)
      BY <1>1, AppendProperties
    <2>2. \A i \in 1 .. Len(q) + 1 : i \in 1 .. Len(q) \/ i = Len(q) + 1  BY <2>1
    <2> QED  BY <2>1, <2>2 DEF Bare
  <1>3. ASSUME q # <<>>
        PROVE  Head(q) = None /\ Tail(q) \in Seq(Lines) /\ Bare(Tail(q))
    <2>1. /\ Tail(q) \in Seq(Lines) /\ Len(Tail(q)) = Len(q) - 1 /\ Len(q) \in Nat /\ Len(q) > 0
          /\ \A i \in 1 .. Len(Tail(q)) : Tail(q)[i] = q[i + 1]
          /\ Head(q) = q[1]
      BY <1>3, HeadTailProperties
    <2>2. \A i \in 1 .. Len(Tail(q)) : i + 1 \in 1 .. Len(q)  BY <2>1
    <2> QED  BY <2>1, <2>2 DEF Bare
  <1> QED  BY <1>2, <1>3

\* Adding to and taking from a sequence that ends in a command.
LEMMA EndingSequences ==
    ASSUME NEW q \in Seq(Lines), NEW c \in Lines
    PROVE  /\ Bare(q) => EndsIn(Append(q, c), c)
           /\ EndsIn(q, c) =>
                 \/ q = <<c>> /\ Head(q) = c /\ Tail(q) = <<>>
                 \/ Head(q) = None /\ EndsIn(Tail(q), c)
           /\ EndsIn(q, c) => q[Len(q)] = c
  <1>1. ASSUME Bare(q)  PROVE EndsIn(Append(q, c), c)
    <2>1. /\ Len(Append(q, c)) = Len(q) + 1 /\ Len(q) \in Nat
          /\ \A i \in 1 .. Len(q) : Append(q, c)[i] = q[i]
          /\ Append(q, c)[Len(q) + 1] = c
          /\ Append(q, c) # <<>>
      BY AppendProperties
    <2>2. \A i \in 1 .. Len(q) + 1 : \/ i \in 1 .. Len(q) /\ i # Len(q) + 1
                                     \/ i = Len(q) + 1
      BY <2>1
    <2> QED  BY <1>1, <2>1, <2>2 DEF Bare, EndsIn
  <1>2. ASSUME EndsIn(q, c)
        PROVE  \/ q = <<c>> /\ Head(q) = c /\ Tail(q) = <<>>
               \/ Head(q) = None /\ EndsIn(Tail(q), c)
    <2>1. /\ Tail(q) \in Seq(Lines) /\ Len(Tail(q)) = Len(q) - 1 /\ Len(q) \in Nat /\ Len(q) > 0
          /\ \A i \in 1 .. Len(Tail(q)) : Tail(q)[i] = q[i + 1]
          /\ Head(q) = q[1] /\ q # <<>>
      BY <1>2, HeadTailProperties DEF EndsIn
    <2>2. \A i \in 1 .. Len(q) : q[i] = IF i = Len(q) THEN c ELSE None  BY <1>2 DEF EndsIn
    <2>3. CASE Len(q) = 1
      <3>1. q[1] = c  BY <2>2, <2>3
      <3>2. q = <<c>>
        <4>1. <<c>> \in Seq(Lines) /\ Len(<<c>>) = 1 /\ <<c>>[1] = c  OBVIOUS
        <4>2. \A i \in 1 .. Len(q) : i = 1  BY <2>3
        <4> HIDE DEF Lines
        <4> QED  BY <2>1, <2>3, <3>1, <4>1, <4>2, SeqEqual
      <3> QED  BY <2>1, <2>3, <3>1, <3>2
    <2>4. CASE Len(q) # 1
      <3>1. Head(q) = None
        <4>1. 1 \in 1 .. Len(q) /\ 1 # Len(q)  BY <2>1, <2>4
        <4> QED  BY <2>1, <2>2, <4>1
      <3>2. \A i \in 1 .. Len(Tail(q)) :
               i + 1 \in 1 .. Len(q) /\ (i + 1 = Len(q) <=> i = Len(Tail(q)))
        BY <2>1
      <3>3. Tail(q) # <<>>
        <4>1. Len(Tail(q)) # 0  BY <2>1, <2>4
        <4>2. Len(<<>>) = 0  OBVIOUS
        <4> QED  BY <4>1, <4>2, Zenon
      <3> QED  BY <2>1, <2>2, <3>1, <3>2, <3>3 DEF EndsIn
    <2> QED  BY <2>3, <2>4
  <1>3. ASSUME EndsIn(q, c)  PROVE q[Len(q)] = c
    <2>1. Len(q) \in 1 .. Len(q)  BY <1>3 DEF EndsIn
    <2> QED  BY <1>3, <2>1 DEF EndsIn
  <1> QED  BY <1>1, <1>2, <1>3

\* What runs is pending, until disconnect forgets it.
LEMMA OnePendingStep ==
    ASSUME PagesIInv, [Next]_vars
    PROVE  OnePending'
  <1>0. /\ PageTypes /\ BoardTypes /\ OnePending /\ ScriptTypes /\ InStep
        /\ queue \in Seq(Commands) /\ writes \in Seq(Lines)
    BY DEF PagesIInv, PageTypes, BoardTypes
  <1>1. CASE UNCHANGED <<running, cut, pending, timers, writes, conn>>
    BY <1>0, <1>1 DEF OnePending, Bare
  <1>2. CASE runCommandUnlocked
    <2>1. queue # <<>> /\ running = None /\ ~cut /\ ~pending.on /\ timers = {}
          /\ UNCHANGED <<cut, conn>>
      BY <1>0, <1>2 DEF runCommandUnlocked, OnePending
    <2>2. Head(queue) \in Commands /\ Head(queue) # None /\ Head(queue) \in Lines
      BY <1>0, <2>1, NoneIsNone DEF Lines
    <2>3. CASE UNCHANGED <<running, pending, timers, quiet, writes>>
      BY <1>1, <2>1, <2>3
    <2>4. CASE /\ conn \in {"open", "closing"}
               /\ running' = Head(queue) /\ pending' = [on |-> TRUE, text |-> {}]
               /\ timers' = timers \cup {Head(queue).id}
               /\ writes' = Append(writes, Head(queue))
      <3>1. writes'[Len(writes')] = Head(queue)
        BY <1>0, <2>2, <2>4, AppendProperties
      <3> QED  BY <2>1, <2>2, <2>4, <3>1 DEF OnePending
    <2> QED  BY <1>2, <2>3, <2>4 DEF runCommandUnlocked
  <1>3. CASE Open
    <2>1. UNCHANGED <<running, cut, pending, timers>> /\ writes' = Append(writes, None)
          /\ conn = "closed"
      BY <1>3 DEF Open, pageVars
    <2>2. Bare(writes) => Bare(writes')  BY <1>0, <2>1, BareSequences
    <2> QED  BY <1>0, <2>1, <2>2 DEF OnePending
  <1>4. CASE CancelReader \/ ReleaseWriter
    BY <1>0, <1>4 DEF CancelReader, ReleaseWriter, OnePending, pageVars, Bare
  <1>5. CASE Closed
    <2>1. /\ UNCHANGED <<running, timers>> /\ pending' = Empty /\ writes' = <<>>
          /\ conn' = "closed"
      BY <1>5 DEF Closed
    <2>2. cut' <=> cut \/ running # None  BY <1>0, <1>5, Zenon DEF Closed, PageTypes
    <2> QED  BY <1>0, <2>1, <2>2 DEF OnePending, Empty, Bare
  <1>6. CASE WriteDone
    <2>1. UNCHANGED <<running, cut, pending, timers, conn>> /\ writes' = Tail(writes) /\ writes # <<>>
      BY <1>6 DEF WriteDone, pageVars
    <2>2. Bare(writes) => Bare(writes')  BY <1>0, <2>1, BareSequences
    <2>3. writes' # <<>> => writes'[Len(writes')] = writes[Len(writes)]
      <3>1. /\ writes' \in Seq(Lines) /\ Len(writes') = Len(writes) - 1 /\ Len(writes) \in Nat
            /\ \A i \in 1 .. Len(writes') : writes'[i] = writes[i + 1]
        BY <1>0, <2>1, HeadTailProperties
      <3>2. writes' # <<>> => Len(writes') \in 1 .. Len(writes') /\ Len(writes') + 1 = Len(writes)
        BY <3>1
      <3> QED  BY <3>1, <3>2
    <2> QED  BY <1>0, <2>1, <2>2, <2>3 DEF OnePending
  <1>7. CASE WriteError
    <2> DEFINE failed == ToSet(writes)
    <2>1. /\ UNCHANGED <<cut, conn>> /\ writes' = <<>> /\ writes # <<>>
          /\ timers' = timers \ {c.id : c \in failed}
          /\ pending' = IF failed \subseteq {None} THEN pending ELSE Empty
          /\ IF running # None /\ running \in failed
             THEN running' = None ELSE running' = running
      BY <1>7 DEF WriteError, Settle
    <2>2. failed = {writes[i] : i \in 1 .. Len(writes)}  BY <1>0 DEF ToSet
    <2>3. CASE running # None /\ ~cut
      <3>1. writes[Len(writes)] = running /\ Len(writes) \in 1 .. Len(writes)
        BY <1>0, <2>1, <2>3 DEF OnePending
      <3>2. running \in failed  BY <2>2, <3>1
      <3> HIDE DEF failed
      <3>3. running' = None /\ pending' = Empty /\ timers' = {}
        BY <1>0, <2>1, <2>3, <3>2 DEF OnePending
      <3> QED  BY <2>1, <2>3, <3>3 DEF OnePending, Empty
    <2>4. CASE running = None
      <3> HIDE DEF failed
      <3> QED  BY <1>0, <2>1, <2>4 DEF OnePending, Empty
    <2>5. CASE cut
      <3>1. running # None /\ ~pending.on /\ Bare(writes)  BY <1>0, <2>5 DEF OnePending
      <3>2. failed \subseteq {None}  BY <2>2, <3>1 DEF Bare
      <3> HIDE DEF failed
      <3> QED  BY <2>1, <2>5, <3>1, <3>2 DEF OnePending, Bare
    <2> QED  BY <2>3, <2>4, <2>5
  <1>8. CASE readLoop
    <2>1. UNCHANGED <<cut, conn, writes>>  BY <1>8 DEF readLoop
    <2>2. \/ UNCHANGED <<running, pending, timers>>
          \/ pending.on /\ pending'.on /\ UNCHANGED <<running, timers>>
          \/ pending.on /\ running' = None /\ pending' = Empty /\ timers' = timers \ {running.id}
      BY <1>0, <1>8 DEF readLoop, Finish, Settle, PageTypes
    <2> QED  BY <1>0, <2>1, <2>2 DEF OnePending, Empty, Bare
  <1>9. ASSUME NEW c \in timers, Timeout(c)
        PROVE  OnePending'
    <2>1. UNCHANGED <<cut, conn, writes>> /\ timers' = timers \ {c}  BY <1>9 DEF Timeout
    <2>2. CASE pending.on
      <3>1. running # None /\ ~cut /\ timers = {running.id}  BY <1>0, <2>2 DEF OnePending
      <3>2. running.id = c  BY <3>1
      <3>3. running' = None /\ pending' = Empty  BY <1>9, <2>2, <3>2 DEF Timeout, Settle
      <3> QED  BY <2>1, <3>1, <3>2, <3>3 DEF OnePending, Empty
    <2>3. CASE ~pending.on
      <3>1. UNCHANGED <<running, pending>>  BY <1>9, <2>3 DEF Timeout
      <3>2. running # None /\ cut /\ Bare(writes)  BY <1>0, <2>3 DEF OnePending
      <3> QED  BY <2>1, <2>3, <3>1, <3>2 DEF OnePending, Bare
    <2> QED  BY <2>2, <2>3
  <1>10. CASE Execute \/ FramePrinted \/ TextLost
    BY <1>1, <1>10 DEF Execute, FramePrinted, TextLost, pageVars
  <1>11. ASSUME NEW what \in Kinds, NEW arg \in Int, runCommand(what, arg)
         PROVE  OnePending'
    BY <1>1, <1>11 DEF runCommand
  <1>12. CASE UNCHANGED serialVars  BY <1>1, <1>12 DEF serialVars, pageVars
  <1> QED
    BY <1>0, <1>2, <1>3, <1>4, <1>5, <1>6, <1>7, <1>8, <1>9, <1>10, <1>11, <1>12, SerialSteps
    DEF SerialNext, disconnect, Timers

\* The elements of a sequence after one is taken from its front or added.
LEMMA Shifted ==
    ASSUME NEW S, NEW q \in Seq(S), q # <<>>
    PROVE  /\ Head(q) = q[1] /\ 1 \in 1 .. Len(q) /\ Head(q) \in S
           /\ Len(Tail(q)) = Len(q) - 1 /\ Len(q) \in Nat
           /\ \A i \in 1 .. Len(Tail(q)) : Tail(q)[i] = q[i + 1] /\ i + 1 \in 1 .. Len(q)
  <1>1. /\ Len(Tail(q)) = Len(q) - 1 /\ Head(q) \in S
        /\ \A i \in 1 .. Len(Tail(q)) : Tail(q)[i] = q[i + 1]
    BY HeadTailProperties
  <1>2. Len(q) \in Nat /\ Len(q) > 0 /\ Head(q) = q[1]  OBVIOUS
  <1> QED  BY <1>1, <1>2

\* The same for an element added at the end.
LEMMA Extended ==
    ASSUME NEW S, NEW q \in Seq(S), NEW e \in S
    PROVE  /\ Len(Append(q, e)) = Len(q) + 1 /\ Len(q) \in Nat
           /\ \A i \in 1 .. Len(q) : Append(q, e)[i] = q[i]
           /\ Append(q, e)[Len(q) + 1] = e
           /\ \A i \in 1 .. Len(Append(q, e)) : i \in 1 .. Len(q) \/ i = Len(q) + 1
  <1>1. /\ Len(Append(q, e)) = Len(q) + 1 /\ Len(q) \in Nat
        /\ \A i \in 1 .. Len(q) : Append(q, e)[i] = q[i]
        /\ Append(q, e)[Len(q) + 1] = e
    BY AppendProperties
  <1> QED  BY <1>1

\* What the board prints as it executes a line.
LEMMA ExecuteStep ==
    ASSUME BoardTypes, Execute
    PROVE  \E f \in Int :
             /\ dev # <<>> /\ dev' = Tail(dev) /\ Head(dev) \in Lines
             /\ Len(line) \in Nat /\ Len(line') = Len(line) + 2
             /\ \A i \in 1 .. Len(line) : line'[i] = line[i]
             /\ line'[Len(line) + 1].output =
                   IF Head(dev) = None THEN {} ELSE {[of |-> Head(dev).id, filter |-> f]}
             /\ line'[Len(line) + 2].output = {}
             /\ \A i \in 1 .. Len(line') :
                   i \in 1 .. Len(line) \/ i = Len(line) + 1 \/ i = Len(line) + 2
             /\ installed' = CASE Head(dev).what = "add" -> installed \cup ({f} \ {-1})
                               [] Head(dev).what = "remove" -> installed \ {Head(dev).arg}
                               [] OTHER -> installed
  <1> DEFINE c == Head(dev)
             f == IF c.what = "add" THEN FreeFilter ELSE -1
             output == IF c = None THEN {} ELSE {[of |-> c.id, filter |-> f]}
             first == [output |-> output, prompt |-> FALSE]
             second == [output |-> {}, prompt |-> TRUE]
  <1>1. dev # <<>> /\ dev' = Tail(dev) /\ c \in Lines
    BY DEF Execute, BoardTypes
  <1>2. f \in Int  BY FreeFilterType
  <1>3. line' = line \o <<first, second>>  BY DEF Execute
  <1>4. installed' = CASE c.what = "add" -> installed \cup ({f} \ {-1})
                       [] c.what = "remove" -> installed \ {c.arg}
                       [] OTHER -> installed
    BY DEF Execute
  <1>5. output \in Texts
    <2>1. c.id \in Nat  BY <1>1, NoneIsNone
    <2> HIDE DEF c, f
    <2>2. [of |-> c.id, filter |-> f] \in Tokens  BY <2>1, <1>2 DEF Tokens
    <2> QED  BY <2>2, TextTypes
  <1>6. /\ first \in Pieces /\ second \in Pieces
        /\ first.output = output /\ second.output = {}
    <2> HIDE DEF output
    <2> QED  BY <1>5, TextTypes DEF Pieces
  <1> HIDE DEF first, second
  <1>7. /\ <<first, second>> \in Seq(Pieces) /\ line \in Seq(Pieces)
        /\ Len(<<first, second>>) = 2 /\ <<first, second>>[1] = first /\ <<first, second>>[2] = second
    BY <1>6 DEF BoardTypes
  <1> DEFINE pair == <<first, second>>
  <1> HIDE DEF pair
  <1>8. /\ Len(line \o pair) = Len(line) + Len(pair)
        /\ \A i \in 1 .. Len(line) + Len(pair) :
              (line \o pair)[i] = IF i <= Len(line) THEN line[i] ELSE pair[i - Len(line)]
    BY <1>7, ConcatProperties DEF pair
  <1>9. line' = line \o pair /\ Len(pair) = 2 /\ pair[1] = first /\ pair[2] = second
    BY <1>3, <1>7 DEF pair
  <1>10. Len(line) \in Nat  BY <1>7
  <1>11. /\ Len(line') = Len(line) + 2
         /\ \A i \in 1 .. Len(line) : line'[i] = line[i]
         /\ line'[Len(line) + 1] = first /\ line'[Len(line) + 2] = second
    BY <1>8, <1>9, <1>10
  <1>12. \A i \in 1 .. Len(line') : i \in 1 .. Len(line) \/ i = Len(line) + 1 \/ i = Len(line) + 2
    BY <1>10, <1>11
  <1>13. line'[Len(line) + 1].output = output /\ line'[Len(line) + 2].output = {}
    BY <1>6, <1>11
  <1> HIDE DEF f
  <1> QED  BY <1>1, <1>2, <1>4, <1>10, <1>11, <1>12, <1>13

\* Whose output a text holds, and two texts together.
LEMMA SourcesOf ==
    /\ Sources({}) = {}
    /\ \A of, filter : Sources({[of |-> of, filter |-> filter]}) = {of}
    /\ \A s, t : Sources(s \cup t) = Sources(s) \cup Sources(t)
  BY DEF Sources

\* Nothing but what belongs to a command written to a quiet board is around.
LEMMA UndisturbedStep ==
    ASSUME PagesIInv, [Next]_vars
    PROVE  Undisturbed'
  <1>0. /\ PageTypes /\ BoardTypes /\ OnePending /\ ScriptTypes /\ InStep /\ Undisturbed
        /\ queue \in Seq(Commands) /\ writes \in Seq(Lines) /\ dev \in Seq(Lines)
        /\ line \in Seq(Pieces)
    BY DEF PagesIInv, PageTypes, BoardTypes
  <1> SUFFICES ASSUME quiet', running' # None
               PROVE  /\ \A i \in 1 .. Len(writes') : writes'[i] \in {running', None}
                      /\ \A i \in 1 .. Len(dev') : dev'[i] \in {running', None}
                      /\ \A i \in 1 .. Len(line') : Sources(line'[i].output) \subseteq {running'.id}
                      /\ Sources(pending'.text) \subseteq {running'.id}
    BY DEF Undisturbed
  <1>a. ASSUME quiet, running # None
        PROVE  /\ \A i \in 1 .. Len(writes) : writes[i] \in {running, None}
               /\ \A i \in 1 .. Len(dev) : dev[i] \in {running, None}
               /\ \A i \in 1 .. Len(line) : Sources(line[i].output) \subseteq {running.id}
               /\ Sources(pending.text) \subseteq {running.id}
    BY <1>0, <1>a DEF Undisturbed
  <1>b. ASSUME quiet, running # None, line # <<>>, line' = Tail(line)
        PROVE  /\ \A i \in 1 .. Len(line') : Sources(line'[i].output) \subseteq {running.id}
               /\ Sources(Head(line).output) \subseteq {running.id}
    <2>1. /\ Head(line) = line[1] /\ 1 \in 1 .. Len(line)
          /\ \A i \in 1 .. Len(line') : line'[i] = line[i + 1] /\ i + 1 \in 1 .. Len(line)
      BY <1>0, <1>b, Shifted
    <2>2. \A i \in 1 .. Len(line) : Sources(line[i].output) \subseteq {running.id}
      BY <1>a, <1>b
    <2> QED  BY <2>1, <2>2
  <1>c. Sources(Empty.text) \subseteq {running'.id}  BY SourcesOf DEF Empty
  <1>1. CASE UNCHANGED <<running, quiet, pending, writes, dev, line>>
    BY <1>0, <1>1 DEF Undisturbed
  <1>2. CASE runCommandUnlocked
    <2>1. running' = Head(queue) /\ pending' = [on |-> TRUE, text |-> {}]
          /\ quiet' = Silent /\ writes' = Append(writes, Head(queue)) /\ UNCHANGED <<dev, line>>
      BY <1>2 DEF runCommandUnlocked, boardVars
    <2>2. writes = <<>> /\ dev = <<>> /\ line = <<>>  BY <2>1, Zenon DEF Silent
    <2>3. writes' = <<Head(queue)>>  BY <2>1, <2>2
    <2> QED  BY <2>1, <2>2, <2>3, SourcesOf
  <1>3. CASE Open
    <2>1. UNCHANGED <<running, quiet, pending, dev, line>> /\ writes' = Append(writes, None)
      BY <1>3 DEF Open, pageVars, boardVars
    <2>2. None \in Lines  BY DEF Lines
    <2>3. \A i \in 1 .. Len(writes') : writes'[i] \in {running, None}
      BY <1>0, <1>a, <2>1, <2>2, Extended
    <2> QED  BY <1>a, <2>1, <2>3
  <1>4. CASE CancelReader \/ ReleaseWriter
    BY <1>1, <1>4 DEF CancelReader, ReleaseWriter, pageVars, boardVars
  <1>5. CASE Closed
    BY <1>0, <1>5, SourcesOf DEF Closed, Undisturbed, Empty, boardVars
  <1>6. CASE WriteDone
    <2>1. UNCHANGED <<running, quiet, pending, line>> /\ writes # <<>>
          /\ writes' = Tail(writes) /\ dev' = Append(dev, Head(writes))
      BY <1>6 DEF WriteDone, pageVars
    <2>2. Head(writes) \in Lines /\ Head(writes) \in {running, None}
      BY <1>0, <2>1, Shifted DEF Undisturbed
    <2>3. \A i \in 1 .. Len(writes') : writes'[i] \in {running, None}
      BY <1>0, <2>1, Shifted DEF Undisturbed
    <2>4. \A i \in 1 .. Len(dev') : dev'[i] \in {running, None}
      BY <1>0, <2>1, <2>2, Extended DEF Undisturbed
    <2> QED  BY <1>0, <2>1, <2>3, <2>4 DEF Undisturbed
  <1>7. CASE WriteError
    <2>1. UNCHANGED <<quiet, dev, line>> /\ writes' = <<>> /\ running' \in {running, None}
          /\ pending' \in {pending, Empty}
      BY <1>7 DEF WriteError, Settle, boardVars
    <2>2. running' = running /\ \A i \in 1 .. Len(writes') : writes'[i] \in {running, None}
      BY <2>1
    <2>3. Sources(pending'.text) \subseteq {running'.id}  BY <1>a, <1>c, <2>1, <2>2
    <2> QED  BY <1>a, <2>1, <2>2, <2>3
  <1>8. CASE readLoop
    <2>1. UNCHANGED <<quiet, dev, writes>> /\ line # <<>> /\ line' = Tail(line)
      BY <1>8 DEF readLoop, boardVars
    <2>2. running' = running /\ pending'.text \in {pending.text, pending.text \cup Head(line).output}
      BY <1>0, <1>8 DEF readLoop, Finish, Settle, PageTypes
    <2>3. /\ \A i \in 1 .. Len(line') : Sources(line'[i].output) \subseteq {running.id}
          /\ Sources(Head(line).output) \subseteq {running.id}
      BY <1>b, <2>1, <2>2
    <2>4. Sources(pending.text) \subseteq {running.id}  BY <1>a, <2>1, <2>2
    <2>5. Sources(pending.text \cup Head(line).output) \subseteq {running.id}
      BY <2>3, <2>4, SourcesOf
    <2> QED  BY <1>a, <2>1, <2>2, <2>3, <2>4, <2>5
  <1>9. ASSUME NEW c \in timers, Timeout(c)
        PROVE  UNCHANGED <<quiet, dev, line, writes>> /\ running' = running
               /\ pending' \in {pending, Empty}
    BY <1>9 DEF Timeout, Settle, boardVars
  <1>10. CASE Timers
    <2>1. UNCHANGED <<quiet, dev, line, writes>> /\ running' = running
          /\ pending' \in {pending, Empty}
      BY <1>9, <1>10 DEF Timers
    <2>2. Sources(pending'.text) \subseteq {running'.id}  BY <1>a, <1>c, <2>1
    <2> QED  BY <1>a, <2>1, <2>2
  <1>11. CASE Execute
    <2>1. UNCHANGED <<running, quiet, pending, writes>>  BY <1>11 DEF Execute, pageVars
    <2>2. PICK f \in Int :
             /\ dev # <<>> /\ dev' = Tail(dev) /\ Head(dev) \in Lines
             /\ \A i \in 1 .. Len(line) : line'[i] = line[i]
             /\ line'[Len(line) + 1].output =
                   IF Head(dev) = None THEN {} ELSE {[of |-> Head(dev).id, filter |-> f]}
             /\ line'[Len(line) + 2].output = {}
             /\ \A i \in 1 .. Len(line') :
                   i \in 1 .. Len(line) \/ i = Len(line) + 1 \/ i = Len(line) + 2
      BY <1>0, <1>11, ExecuteStep
    <2>3. Head(dev) \in {running, None} /\ \A i \in 1 .. Len(dev') : dev'[i] \in {running, None}
      BY <1>0, <2>1, <2>2, Shifted DEF Undisturbed
    <2>4. Sources(line'[Len(line) + 1].output) \subseteq {running.id}
      <3>1. CASE Head(dev) = None  BY <2>2, <3>1, SourcesOf
      <3>2. CASE Head(dev) # None
        <4>1. line'[Len(line) + 1].output = {[of |-> running.id, filter |-> f]}
          BY <2>2, <2>3, <3>2
        <4> QED  BY <4>1 DEF Sources
      <3> QED  BY <3>1, <3>2
    <2>5. Sources(line'[Len(line) + 2].output) \subseteq {running.id}
      BY <2>2, SourcesOf
    <2>6. \A i \in 1 .. Len(line') : Sources(line'[i].output) \subseteq {running.id}
      BY <1>a, <2>1, <2>2, <2>4, <2>5
    <2> QED  BY <1>a, <2>1, <2>3, <2>6
  <1>12. CASE FramePrinted  BY <1>12 DEF FramePrinted
  <1>13. CASE TextLost
    <2>1. UNCHANGED <<running, quiet, pending, writes, dev>> /\ line # <<>> /\ line' = Tail(line)
      BY <1>13 DEF TextLost, pageVars, boardVars
    <2> QED  BY <1>a, <1>b, <2>1
  <1>14. ASSUME NEW what \in Kinds, NEW arg \in Int, runCommand(what, arg)
         PROVE  UNCHANGED <<running, quiet, pending, writes, dev, line>>
    BY <1>14 DEF runCommand, boardVars
  <1>15. CASE UNCHANGED serialVars  BY <1>1, <1>15 DEF serialVars, pageVars, boardVars
  <1> QED
    BY <1>0, <1>1, <1>2, <1>3, <1>4, <1>5, <1>6, <1>7, <1>8, <1>10, <1>11, <1>12, <1>13, <1>14, <1>15,
       SerialSteps
    DEF SerialNext, disconnect

\* A response holds the output of its command alone, if the board was quiet.
LEMMA OwnAnswerStep ==
    ASSUME PagesIInv, [Next]_vars
    PROVE  OwnAnswer'
  <1>0. /\ PageTypes /\ BoardTypes /\ OnePending /\ ScriptTypes /\ InStep /\ Undisturbed
        /\ line \in Seq(Pieces) /\ OwnAnswer
    BY DEF PagesIInv, PageTypes, BoardTypes
  <1>1. CASE UNCHANGED last  BY <1>0, <1>1 DEF OwnAnswer
  <1>2. CASE last'.end # "prompt"  BY <1>2 DEF OwnAnswer
  <1>3. CASE runCommandUnlocked  BY <1>1, <1>2, <1>3 DEF runCommandUnlocked
  <1>4. CASE WriteError  BY <1>1, <1>2, <1>4 DEF WriteError, Settle
  <1>5. CASE readLoop
    <2>1. CASE UNCHANGED last  BY <1>1, <2>1
    <2>2. CASE pending.on /\ Settle("prompt", pending.text \cup Head(line).output)
      <3>1. line # <<>> /\ running # None  BY <1>0, <1>5, <2>2 DEF readLoop, OnePending
      <3>2. ASSUME quiet
            PROVE  Sources(pending.text \cup Head(line).output) \subseteq {running.id}
        <4>0. Head(line) = line[1] /\ 1 \in 1 .. Len(line)
          BY <1>0, <3>1, Shifted
        <4>1. Sources(Head(line).output) \subseteq {running.id}
          BY <1>0, <3>1, <3>2, <4>0 DEF Undisturbed
        <4>2. Sources(pending.text) \subseteq {running.id}
          BY <1>0, <3>1, <3>2 DEF Undisturbed
        <4> QED  BY <4>1, <4>2, SourcesOf
      <3> QED  BY <2>2, <3>2 DEF Settle, OwnAnswer
    <2> QED  BY <1>5, <2>1, <2>2 DEF readLoop, Finish
  <1>6. CASE Timers  BY <1>1, <1>2, <1>6 DEF Timers, Timeout, Settle
  <1>7. CASE Open \/ disconnect \/ WriteDone \/ Execute \/ FramePrinted \/ TextLost
    BY <1>1, <1>7
    DEF Open, disconnect, CancelReader, ReleaseWriter, Closed, WriteDone, Execute,
        FramePrinted, TextLost, pageVars
  <1>8. ASSUME NEW what \in Kinds, NEW arg \in Int, runCommand(what, arg)
        PROVE  OwnAnswer'
    BY <1>1, <1>8 DEF runCommand
  <1>9. CASE UNCHANGED serialVars  BY <1>1, <1>9 DEF serialVars, pageVars
  <1> QED
    BY <1>0, <1>3, <1>4, <1>5, <1>6, <1>7, <1>8, <1>9, SerialSteps DEF SerialNext

\* The line loses its first piece of text, read or not.
LEMMA TracedTail ==
    ASSUME line \in Seq(Pieces), Traced, line # <<>>, line' = Tail(line),
           UNCHANGED <<running, writes, dev>>,
           pending'.text \in {pending.text, pending.text \cup Head(line).output}
    PROVE  Traced'
  <1>1. /\ Head(line) = line[1] /\ 1 \in 1 .. Len(line)
        /\ Len(line') = Len(line) - 1 /\ Len(line) \in Nat
        /\ \A i \in 1 .. Len(line') : line'[i] = line[i + 1] /\ i + 1 \in 1 .. Len(line)
    BY Shifted
  <1>2. ASSUME Mute(line)  PROVE Mute(line') /\ Blank(Head(line).output)
    BY <1>1, <1>2 DEF Mute
  <1>3. ASSUME Blank(pending.text), Blank(Head(line).output)  PROVE Blank(pending'.text)
    BY <1>3 DEF Blank
  <1>4. CASE Sent  BY <1>2, <1>3, <1>4 DEF Traced, Sent
  <1>5. CASE Received  BY <1>2, <1>3, <1>5 DEF Traced, Received
  <1>6. CASE Printed
    <2>1. PICK i \in 1 .. Len(line) :
             /\ \A t \in line[i].output : t.of = running.id /\ line[i].output = {t}
             /\ \A j \in 1 .. Len(line) : j # i => Blank(line[j].output)
      BY <1>6 DEF Printed
    <2>2. writes' = <<>> /\ dev' = <<>> /\ Blank(pending.text)  BY <1>6 DEF Printed
    <2>3. CASE i = 1
      <3>1. \A j \in 1 .. Len(line') : Blank(line'[j].output)
        <4> TAKE j \in 1 .. Len(line')
        <4>1. j + 1 # 1  BY <1>1
        <4> QED  BY <1>1, <2>1, <2>3, <4>1
      <3>2. \A t \in Head(line).output : t.of = running.id /\ Head(line).output = {t}
        BY <1>1, <2>1, <2>3
      <3>3. \A t \in pending'.text : t.of \in {0, running.id}
        BY <2>2, <3>2 DEF Blank
      <3>4. \A t, u \in pending'.text : t.of # 0 /\ u.of # 0 => t = u
        BY <2>2, <3>2 DEF Blank
      <3> QED  BY <2>2, <3>1, <3>3, <3>4 DEF Traced, Arrived, Mute
    <2>4. CASE i # 1
      <3>1. i - 1 \in 1 .. Len(line') /\ i - 1 + 1 = i  BY <1>1, <2>4
      <3>2. line'[i - 1] = line[i]  BY <1>1, <3>1
      <3>3. \A j \in 1 .. Len(line') : j # i - 1 => Blank(line'[j].output)
        <4> SUFFICES ASSUME NEW j \in 1 .. Len(line'), j # i - 1  PROVE Blank(line'[j].output)
          OBVIOUS
        <4>1. j + 1 # i  BY <1>1, <3>1
        <4> QED  BY <1>1, <2>1, <4>1
      <3>4. Blank(Head(line).output)  BY <1>1, <2>1, <2>4
      <3>5. Blank(pending'.text)  BY <1>3, <2>2, <3>4
      <3> DEFINE k == i - 1
      <3>6. /\ k \in 1 .. Len(line')
            /\ \A t \in line'[k].output : t.of = running'.id /\ line'[k].output = {t}
            /\ \A j \in 1 .. Len(line') : j # k => Blank(line'[j].output)
        BY <2>1, <3>1, <3>2, <3>3
      <3> HIDE DEF k
      <3>7. Printed'  BY <2>2, <3>5, <3>6 DEF Printed
      <3> QED  BY <3>7 DEF Traced
    <2> QED  BY <2>3, <2>4
  <1>7. CASE Arrived
    <2>1. writes' = <<>> /\ dev' = <<>> /\ Mute(line') /\ Blank(Head(line).output)
      BY <1>2, <1>7 DEF Arrived
    <2>2. \A t \in pending'.text : t.of \in {0, running.id}  BY <1>7, <2>1 DEF Arrived, Blank
    <2>3. \A t, u \in pending'.text : t.of # 0 /\ u.of # 0 => t = u
      BY <1>7, <2>1 DEF Arrived, Blank
    <2> QED  BY <2>1, <2>2, <2>3 DEF Traced, Arrived
  <1> QED  BY <1>4, <1>5, <1>6, <1>7 DEF Traced

\* The text of a piece that is read when the answer is complete.
LEMMA TracedAnswer ==
    ASSUME line \in Seq(Pieces), Traced, line # <<>>, line' = Tail(line), running.id # 0,
           NEW text, text = pending.text \cup Head(line).output, Sources(text) = {running.id}
    PROVE  /\ writes = <<>> /\ dev = <<>> /\ Mute(line')
           /\ \A t, u \in text : t = u
  <1>1. /\ Head(line) = line[1] /\ 1 \in 1 .. Len(line)
        /\ Len(line') = Len(line) - 1 /\ Len(line) \in Nat
        /\ \A i \in 1 .. Len(line') : line'[i] = line[i + 1] /\ i + 1 \in 1 .. Len(line)
    BY Shifted
  <1>2. \A t \in text : t.of = running.id  BY DEF Sources
  <1>3. PICK s \in text : s.of = running.id  BY DEF Sources
  <1>4. ~(Blank(pending.text) /\ Blank(Head(line).output))  BY <1>3 DEF Blank
  <1>5. ASSUME Mute(line)  PROVE Mute(line') /\ Blank(Head(line).output)
    BY <1>1, <1>5 DEF Mute
  <1>6. CASE Sent \/ Received  BY <1>4, <1>5, <1>6 DEF Sent, Received
  <1>7. CASE Printed
    <2>1. PICK i \in 1 .. Len(line) :
             /\ \A t \in line[i].output : t.of = running.id /\ line[i].output = {t}
             /\ \A j \in 1 .. Len(line) : j # i => Blank(line[j].output)
      BY <1>7 DEF Printed
    <2>2. writes = <<>> /\ dev = <<>> /\ Blank(pending.text)  BY <1>7 DEF Printed
    <2>3. i = 1  BY <1>1, <1>4, <2>1, <2>2
    <2>4. \A j \in 1 .. Len(line') : Blank(line'[j].output)
      <3> TAKE j \in 1 .. Len(line')
      <3>1. j + 1 # 1  BY <1>1
      <3> QED  BY <1>1, <2>1, <2>3, <3>1
    <2>5. \A t \in text : t \in Head(line).output  BY <1>2, <2>2 DEF Blank
    <2>6. \A t, u \in text : t = u  BY <1>1, <2>1, <2>3, <2>5
    <2> QED  BY <2>2, <2>4, <2>6 DEF Mute
  <1>8. CASE Arrived
    <2>1. Mute(line') /\ Blank(Head(line).output) /\ writes = <<>> /\ dev = <<>>
      BY <1>5, <1>8 DEF Arrived
    <2>2. \A t \in text : t \in pending.text  BY <1>2, <2>1 DEF Blank
    <2>3. \A t, u \in text : t = u  BY <1>2, <1>8, <2>2 DEF Arrived
    <2> QED  BY <2>1, <2>3
  <1> QED  BY <1>6, <1>7, <1>8 DEF Traced

\* As long as every command gets its own answer, nothing is left of those that
\* are settled, and the running one is in one place.
LEMMA AnsweredStep ==
    ASSUME PagesIInv, [Next]_vars
    PROVE  Answered'
  <1>0. /\ PageTypes /\ BoardTypes /\ OnePending /\ ScriptTypes /\ InStep /\ Answered
        /\ queue \in Seq(Commands) /\ writes \in Seq(Lines) /\ dev \in Seq(Lines)
        /\ line \in Seq(Pieces) /\ running \in Lines
    BY DEF PagesIInv, PageTypes, BoardTypes
  <1>n. None \in Lines  BY DEF Lines
  <1> SUFFICES ASSUME own'
               PROVE  /\ last'.end # "rejected"
                      /\ last'.id # 0 => Sources(last'.text) = {last'.id}
                      /\ \A t, u \in last'.text : t = u
                      /\ running' = None => Bare(writes') /\ Bare(dev') /\ Mute(line')
                      /\ running' # None /\ ~cut' => Traced'
    BY DEF Answered
  <1>a. ASSUME own
        PROVE  /\ last.end # "rejected"
               /\ last.id # 0 => Sources(last.text) = {last.id}
               /\ \A t, u \in last.text : t = u
               /\ running = None => Bare(writes) /\ Bare(dev) /\ Mute(line)
               /\ running # None /\ ~cut => Traced
    BY <1>0, <1>a DEF Answered
  <1>1. CASE UNCHANGED <<own, last, running, cut, pending, writes, dev, line>>
    <2>1. Traced => Traced'  BY <1>1 DEF Traced, Sent, Received, Printed, Arrived
    <2> QED  BY <1>1, <1>a, <2>1
  <1>2. CASE runCommandUnlocked
    <2>1. running' = Head(queue) /\ pending' = [on |-> TRUE, text |-> {}] /\ queue # <<>>
          /\ writes' = Append(writes, Head(queue)) /\ UNCHANGED <<dev, line, last, own>>
          /\ running = None
      BY <1>2 DEF runCommandUnlocked, boardVars
    <2>2. Head(queue) \in Lines /\ Head(queue) # None  BY <1>0, <2>1, NoneIsNone DEF Lines
    <2>3. EndsIn(writes', Head(queue))  BY <1>0, <1>a, <2>1, <2>2, EndingSequences
    <2>4. Blank(pending'.text)  BY <2>1 DEF Blank
    <2>5. Sent'  BY <1>a, <2>1, <2>3, <2>4 DEF Sent
    <2> QED  BY <1>a, <2>1, <2>2, <2>5 DEF Traced
  <1>3. CASE Open
    <2>1. UNCHANGED <<own, last, running, cut, dev, line>> /\ writes' = Append(writes, None)
          /\ conn = "closed"
      BY <1>3 DEF Open, pageVars, boardVars
    <2>2. running # None => cut  BY <1>0, <2>1 DEF OnePending
    <2>3. running = None => Bare(writes')  BY <1>0, <1>a, <2>1, BareSequences
    <2> QED  BY <1>a, <2>1, <2>2, <2>3
  <1>4. CASE CancelReader \/ ReleaseWriter
    BY <1>1, <1>4 DEF CancelReader, ReleaseWriter, pageVars, boardVars
  <1>5. CASE Closed
    <2>1. UNCHANGED <<own, last, running, writes, dev, line>>  BY <1>5 DEF Closed, boardVars
    <2>2. running # None => cut'  BY <1>5 DEF Closed
    <2> QED  BY <1>a, <2>1, <2>2
  <1>6. CASE WriteDone
    <2>1. UNCHANGED <<own, last, running, cut, pending, line>> /\ writes # <<>>
          /\ writes' = Tail(writes) /\ dev' = Append(dev, Head(writes))
      BY <1>6 DEF WriteDone, pageVars
    <2>2. ASSUME running = None  PROVE Bare(writes') /\ Bare(dev')
      BY <1>0, <1>a, <2>1, <2>2, BareSequences
    <2>3. ASSUME running # None, ~cut  PROVE Traced'
      <3>1. Sent  BY <1>a, <2>1, <2>3 DEF Traced, Sent, Received, Printed, Arrived
      <3>2. CASE Head(writes) = running /\ Tail(writes) = <<>>
        <4>1. EndsIn(dev', running)  BY <1>0, <2>1, <3>1, <3>2, EndingSequences DEF Sent
        <4> QED  BY <2>1, <3>1, <3>2, <4>1 DEF Sent, Received, Traced
      <3>3. CASE Head(writes) = None /\ EndsIn(Tail(writes), running)
        <4>1. Bare(dev')  BY <1>0, <2>1, <3>1, <3>3, BareSequences DEF Sent
        <4> QED  BY <2>1, <3>1, <3>3, <4>1 DEF Sent, Traced
      <3> QED  BY <1>0, <3>1, <3>2, <3>3, EndingSequences DEF Sent
    <2> QED  BY <1>a, <2>1, <2>2, <2>3
  <1>7. CASE WriteError
    <2>1. UNCHANGED <<cut, dev, line>> /\ writes' = <<>> /\ writes # <<>>
      BY <1>7 DEF WriteError, boardVars
    <2>2. CASE running # None /\ ~cut
      <3>1. writes[Len(writes)] = running /\ Len(writes) \in DOMAIN writes
        BY <1>0, <2>1, <2>2 DEF OnePending
      <3>2. running \in ToSet(writes)  BY <3>1 DEF ToSet
      <3>3. Settle("rejected", {})  BY <1>7, <2>2, <3>2 DEF WriteError
      <3>4. ~own'  BY <3>3, Zenon DEF Settle
      <3> QED  BY <3>4
    <2>3. CASE running = None
      <3>1. UNCHANGED <<last, own, running>>  BY <1>7, <2>3 DEF WriteError
      <3> QED  BY <1>a, <2>1, <2>3, <3>1 DEF Bare
    <2>4. CASE cut
      <3>1. ~(running # None /\ running \in ToSet(writes))
        BY <1>0, <2>4 DEF OnePending, Bare, ToSet
      <3>2. UNCHANGED <<last, own, running>>  BY <1>7, <3>1 DEF WriteError
      <3> QED  BY <1>0, <1>a, <2>1, <2>4, <3>2 DEF OnePending
    <2> QED  BY <2>2, <2>3, <2>4
  <1>8. CASE readLoop
    <2> DEFINE text == pending.text \cup Head(line).output
    <2>1. UNCHANGED <<cut, dev, writes>> /\ line # <<>> /\ line' = Tail(line)
      BY <1>8 DEF readLoop, boardVars
    <2>2. Mute(line) => Mute(line')
      <3>1. \A i \in 1 .. Len(line') : line'[i] = line[i + 1] /\ i + 1 \in 1 .. Len(line)
        BY <1>0, <2>1, Shifted
      <3> QED  BY <3>1 DEF Mute
    <2>3. CASE /\ UNCHANGED <<running, last, own>>
               /\ pending'.text \in {pending.text, text}
      <3>1. Traced => Traced'  BY <1>0, <2>1, <2>3, TracedTail
      <3> QED  BY <1>a, <2>1, <2>2, <2>3, <3>1
    <2>4. CASE pending.on /\ Settle("prompt", text)
      <3>1. own /\ Sources(text) = {running.id}  BY <2>4, Zenon DEF Settle
      <3>2. running' = None /\ last'.end = "prompt" /\ last'.id = running.id /\ last'.text = text
        BY <2>4 DEF Settle
      <3>3. running # None /\ ~cut /\ running.id # 0
        BY <1>0, <2>4, NoneIsNone DEF OnePending
      <3>4. Traced  BY <1>a, <3>1, <3>3
      <3>5. /\ writes = <<>> /\ dev = <<>> /\ Mute(line')
            /\ \A t, u \in text : t = u
        BY <1>0, <2>1, <3>1, <3>3, <3>4, TracedAnswer
      <3> HIDE DEF text
      <3> QED  BY <2>1, <3>1, <3>2, <3>5 DEF Bare
    <2> QED
      BY <1>0, <1>8, <2>3, <2>4 DEF readLoop, Finish, PageTypes
  <1>9. ASSUME NEW c \in timers, Timeout(c)
        PROVE  UNCHANGED <<own, last, running, cut, pending, writes, dev, line>>
    <2>1. UNCHANGED <<cut, writes, dev, line>>  BY <1>9 DEF Timeout, boardVars
    <2>2. CASE pending.on
      <3>1. running.id = c  BY <1>0, <2>2 DEF OnePending
      <3>2. Settle("timeout", pending.text)  BY <1>9, <2>2, <3>1 DEF Timeout
      <3>3. ~own'  BY <3>2, Zenon DEF Settle
      <3> QED  BY <3>3
    <2>3. CASE ~pending.on  BY <1>9, <2>1, <2>3 DEF Timeout
    <2> QED  BY <2>2, <2>3
  <1>10. CASE Timers  BY <1>1, <1>9, <1>10 DEF Timers
  <1>11. CASE Execute
    <2>1. UNCHANGED <<own, last, running, cut, pending, writes>>  BY <1>11 DEF Execute, pageVars
    <2>2. PICK f \in Int :
             /\ dev # <<>> /\ dev' = Tail(dev) /\ Head(dev) \in Lines
             /\ Len(line) \in Nat /\ Len(line') = Len(line) + 2
             /\ \A i \in 1 .. Len(line) : line'[i] = line[i]
             /\ line'[Len(line) + 1].output =
                   IF Head(dev) = None THEN {} ELSE {[of |-> Head(dev).id, filter |-> f]}
             /\ line'[Len(line) + 2].output = {}
             /\ \A i \in 1 .. Len(line') :
                   i \in 1 .. Len(line) \/ i = Len(line) + 1 \/ i = Len(line) + 2
      BY <1>0, <1>11, ExecuteStep
    <2>3. ASSUME Mute(line)
          PROVE  \A j \in 1 .. Len(line') : j # Len(line) + 1 => Blank(line'[j].output)
      <3>1. Blank(line'[Len(line) + 2].output)  BY <2>2 DEF Blank
      <3> QED  BY <2>2, <2>3, <3>1 DEF Mute
    <2>4. ASSUME Mute(line), Head(dev) = None  PROVE Mute(line')
      <3>1. Blank(line'[Len(line) + 1].output)  BY <2>2, <2>4 DEF Blank
      <3> QED  BY <2>3, <2>4, <3>1 DEF Mute
    <2>5. ASSUME running = None  PROVE Bare(dev') /\ Mute(line')
      BY <1>0, <1>a, <2>1, <2>2, <2>4, <2>5, BareSequences
    <2>6. ASSUME running # None, ~cut  PROVE Traced'
      <3>1. CASE Sent
        <4>1. Head(dev) = None /\ Bare(dev')  BY <1>0, <2>2, <3>1, BareSequences DEF Sent
        <4> QED  BY <2>1, <2>4, <3>1, <4>1 DEF Sent, Traced
      <3>2. CASE Received
        <4>1. CASE Head(dev) = running /\ Tail(dev) = <<>>
          <5> DEFINE k == Len(line) + 1
          <5>1. k \in 1 .. Len(line')  BY <2>2
          <5>2. line'[k].output = {[of |-> running.id, filter |-> f]}
            BY <2>2, <2>6, <4>1
          <5>3. \A j \in 1 .. Len(line') : j # k => Blank(line'[j].output)
            BY <2>3, <3>2 DEF Received
          <5>4. \A t \in line'[k].output : t.of = running.id /\ line'[k].output = {t}
            BY <5>2
          <5> HIDE DEF k
          <5>5. writes' = <<>> /\ dev' = <<>> /\ Blank(pending'.text)
            BY <2>1, <2>2, <3>2, <4>1 DEF Received
          <5>6. Printed'  BY <2>1, <5>1, <5>3, <5>4, <5>5 DEF Printed
          <5> QED  BY <5>6 DEF Traced
        <4>2. CASE Head(dev) = None /\ EndsIn(Tail(dev), running)
          BY <2>1, <2>2, <2>4, <3>2, <4>2 DEF Received, Traced
        <4> QED  BY <1>0, <3>2, <4>1, <4>2, EndingSequences DEF Received
      <3>3. CASE Printed \/ Arrived  BY <2>2, <3>3 DEF Printed, Arrived
      <3> QED  BY <1>a, <2>1, <2>6, <3>1, <3>2, <3>3 DEF Traced
    <2> QED  BY <1>a, <2>1, <2>5, <2>6
  <1>12. CASE FramePrinted
    <2> DEFINE piece == [output |-> {[of |-> 0, filter |-> -1]}, prompt |-> TRUE]
    <2>1. UNCHANGED <<own, last, running, cut, pending, writes, dev>> /\ line' = Append(line, piece)
      BY <1>12 DEF FramePrinted, boardVars
    <2>2. piece \in Pieces /\ Blank(piece.output)
      <3>1. [of |-> 0, filter |-> -1] \in Tokens  BY DEF Tokens
      <3> QED  BY <3>1, TextTypes DEF Pieces, Blank
    <2> HIDE DEF piece
    <2>3. /\ Len(line') = Len(line) + 1 /\ Len(line) \in Nat
          /\ \A i \in 1 .. Len(line) : line'[i] = line[i]
          /\ line'[Len(line) + 1] = piece
          /\ \A i \in 1 .. Len(line') : i \in 1 .. Len(line) \/ i = Len(line) + 1
      BY <1>0, <2>1, <2>2, Extended
    <2>4. Mute(line) => Mute(line')  BY <2>2, <2>3 DEF Mute
    <2>5. Printed => Printed'
      <3> SUFFICES ASSUME Printed  PROVE Printed'
        OBVIOUS
      <3>1. PICK i \in 1 .. Len(line) :
               /\ \A t \in line[i].output : t.of = running.id /\ line[i].output = {t}
               /\ \A j \in 1 .. Len(line) : j # i => Blank(line[j].output)
        BY DEF Printed
      <3>2. i \in 1 .. Len(line') /\ line'[i] = line[i]  BY <2>3
      <3>3. \A j \in 1 .. Len(line') : j # i => Blank(line'[j].output)
        BY <2>2, <2>3, <3>1
      <3>4. \A t \in line'[i].output : t.of = running'.id /\ line'[i].output = {t}
        BY <2>1, <3>1, <3>2
      <3>5. writes' = <<>> /\ dev' = <<>> /\ Blank(pending'.text)  BY <2>1 DEF Printed
      <3> HIDE DEF Printed
      <3> QED  BY <3>2, <3>3, <3>4, <3>5 DEF Printed
    <2>6. Traced => Traced'
      BY <2>1, <2>4, <2>5 DEF Traced, Sent, Received, Arrived
    <2> QED  BY <1>a, <2>1, <2>4, <2>6
  <1>13. CASE TextLost
    <2>1. UNCHANGED <<own, last, running, cut, pending, writes, dev>>
          /\ line # <<>> /\ line' = Tail(line)
      BY <1>13 DEF TextLost, pageVars, boardVars
    <2>2. \A i \in 1 .. Len(line') : line'[i] = line[i + 1] /\ i + 1 \in 1 .. Len(line)
      BY <1>0, <2>1, Shifted
    <2>3. Mute(line) => Mute(line')  BY <2>2 DEF Mute
    <2>4. Traced => Traced'  BY <1>0, <2>1, TracedTail
    <2> QED  BY <1>a, <2>1, <2>3, <2>4
  <1>14. ASSUME NEW what \in Kinds, NEW arg \in Int, runCommand(what, arg)
         PROVE  UNCHANGED <<own, last, running, cut, pending, writes, dev, line>>
    BY <1>14 DEF runCommand, boardVars
  <1>15. CASE UNCHANGED serialVars  BY <1>1, <1>15 DEF serialVars, pageVars, boardVars
  <1> QED
    BY <1>0, <1>1, <1>2, <1>3, <1>4, <1>5, <1>6, <1>7, <1>8, <1>10, <1>11, <1>12, <1>13, <1>14, <1>15,
       SerialSteps
    DEF SerialNext, disconnect

\* What the port and the board do leaves the queue alone.
LEMMA QueueKept ==
    ASSUME OnePending, SerialNext
    PROVE  UNCHANGED <<queue, issued>> /\ running' \in {running, None}
  <1>1. CASE WriteError \/ readLoop \/ Timers  BY <1>1, SettlingSteps
  <1>2. CASE Open \/ disconnect \/ WriteDone \/ Execute \/ FramePrinted \/ TextLost
    BY <1>2
    DEF Open, disconnect, CancelReader, ReleaseWriter, Closed, WriteDone, Execute,
        FramePrinted, TextLost, pageVars
  <1> QED  BY <1>1, <1>2 DEF SerialNext

\* The list of stopCapture without its first command.
LEMMA StopListTail ==
    ASSUME ScriptTypes, StopList(script.todo)
    PROVE  /\ Len(script.todo) = 1 => Head(script.todo) = "stop" /\ Tail(script.todo) = <<>>
           /\ Len(script.todo) # 1 =>
                 Head(script.todo) = "remove" /\ StopList(Tail(script.todo))
           /\ Len(Tail(script.todo)) = Len(script.todo) - 1
  <1> DEFINE todo == script.todo
  <1>1. todo \in Seq(Kinds) /\ todo # <<>>  BY DEF ScriptTypes, StopList
  <1>2. Len(filterIds) \in Nat  BY DEF ScriptTypes
  <1>3. /\ \A i \in 1 .. Len(todo) : todo[i] = IF i = Len(todo) THEN "stop" ELSE "remove"
        /\ Len(todo) <= Len(filterIds) + 1
    BY DEF StopList
  <1> HIDE DEF todo
  <1>4. /\ Head(todo) = todo[1] /\ 1 \in 1 .. Len(todo)
        /\ Len(Tail(todo)) = Len(todo) - 1 /\ Len(todo) \in Nat
        /\ \A i \in 1 .. Len(Tail(todo)) : Tail(todo)[i] = todo[i + 1] /\ i + 1 \in 1 .. Len(todo)
    BY <1>1, Shifted
  <1>5. ASSUME Len(todo) = 1  PROVE Head(todo) = "stop" /\ Tail(todo) = <<>>
    <2>1. Tail(todo) \in Seq(Kinds)  BY <1>1
    <2> QED  BY <1>3, <1>4, <1>5, <2>1
  <1>6. ASSUME Len(todo) # 1  PROVE Head(todo) = "remove" /\ StopList(Tail(todo))
    <2>1. Head(todo) = "remove"  BY <1>3, <1>4, <1>6
    <2>2. Tail(todo) # <<>>
      <3>1. Len(Tail(todo)) # 0  BY <1>4, <1>6
      <3>2. Len(<<>>) = 0  OBVIOUS
      <3> QED  BY <3>1, <3>2, Zenon
    <2>3. \A i \in 1 .. Len(Tail(todo)) :
             Tail(todo)[i] = IF i = Len(Tail(todo)) THEN "stop" ELSE "remove"
      <3> TAKE i \in 1 .. Len(Tail(todo))
      <3>1. i + 1 = Len(todo) <=> i = Len(Tail(todo))  BY <1>4
      <3> QED  BY <1>3, <1>4, <3>1
    <2>4. Len(Tail(todo)) <= Len(filterIds) + 1  BY <1>2, <1>3, <1>4
    <2> QED  BY <2>1, <2>2, <2>3, <2>4 DEF StopList
  <1> QED  BY <1>4, <1>5, <1>6 DEF todo

\* When the monitor's function goes on, no command is in the queue or running.
LEMMA ContinueSettled ==
    ASSUME PagesIInv, Continue
    PROVE  queue = <<>> /\ running = None
  <1>1. /\ page = "monitor" /\ script.wait # 0 /\ last.id = script.wait
        /\ script.wait = issued /\ issued \in Nat /\ Len(queue) \in Nat /\ queue \in Seq(Commands)
    BY DEF Continue, PagesIInv, InStep, PageTypes
  <1>2. running = None /\ Len(queue) = 0  BY <1>1 DEF PagesIInv, InOrder, Begun
  <1> QED  BY <1>1, <1>2

\* What the monitor's function does when its command is settled with an answer
\* that is not an error.
LEMMA ContinueCases ==
    ASSUME ScriptTypes, PageTypes, InStep, Continue
    PROVE  /\ script.todo # <<>> /\ script.fn \in {"start", "stop"}
           /\ \/ script' = Idle /\ UNCHANGED <<filterIds, capturing>> /\ last.end = "rejected"
              \/ /\ filterIds' = filterIds \o SetToSeq(IF Head(script.todo) = "add"
                                                       THEN parseFilterId(last.text) ELSE {})
                 /\ script' = IF Tail(script.todo) = <<>> THEN Idle
                              ELSE [script EXCEPT !.todo = Tail(script.todo), !.wait = 0]
                 /\ capturing' = IF Tail(script.todo) = <<>> THEN script.fn = "start"
                                 ELSE capturing
  <1>1. page = "monitor" /\ script.wait # 0  BY DEF Continue
  <1>2. script.fn \in {"start", "stop"}  BY <1>1 DEF InStep, Idle, ScriptTypes
  <1>3. script.todo # <<>>  BY <1>1, <1>2 DEF InStep, StartList, StopList
  <1> QED  BY <1>2, <1>3, Zenon DEF Continue

\* The filters stay as they are unless a filter was added.
LEMMA NothingFound ==
    ASSUME NEW q \in Seq(Int)
    PROVE  q \o SetToSeq({}) = q
  BY SetToSeqNone

\* The monitor's function is in step with the queue.
LEMMA InStepStep ==
    ASSUME PagesIInv, [Next]_vars
    PROVE  InStep'
  <1>0. /\ PageTypes /\ OnePending /\ ScriptTypes /\ ScriptTypes' /\ InStep
        /\ queue \in Seq(Commands) /\ running \in Lines /\ issued \in Nat /\ Len(queue) \in Nat
        /\ filterIds \in Seq(Int) /\ script.todo \in Seq(Kinds) /\ Len(filterIds) \in Nat
    BY ScriptTypesStep DEF PagesIInv, PageTypes, ScriptTypes
  <1> SUFFICES ASSUME page' = "monitor"
               PROVE  /\ script'.fn = "idle" => script' = Idle
                      /\ script'.fn = "start" => StartList(script'.todo)
                      /\ script'.fn = "stop" => StopList(script.todo)'
                      /\ script'.wait = 0 => queue' = <<>> /\ running' = None
                      /\ script'.wait # 0 =>
                            /\ script'.wait = issued' /\ Len(queue') <= 1
                            /\ \A i \in 1 .. Len(queue') : Asked(queue[i])'
                            /\ running' # None => queue' = <<>> /\ Asked(running)'
                            /\ script'.fn = "stop" /\ Len(script'.todo) = 1 => filterIds' = <<>>
    BY DEF InStep
  <1>m. page = "monitor"
    BY DEF Next, SameTurn, Serial, Click, Press, startPolling, PollTick, stopPolling,
           startCapture, stopCapture, Issue, Continue, vars
  <1>a. /\ script.fn = "idle" => script = Idle
        /\ script.fn = "start" => StartList(script.todo)
        /\ script.fn = "stop" => StopList(script.todo)
        /\ script.wait = 0 => queue = <<>> /\ running = None
        /\ script.wait # 0 =>
              /\ script.wait = issued /\ Len(queue) <= 1
              /\ \A i \in 1 .. Len(queue) : Asked(queue[i])
              /\ running # None => queue = <<>> /\ Asked(running)
              /\ script.fn = "stop" /\ Len(script.todo) = 1 => filterIds = <<>>
    BY <1>0, <1>m DEF InStep
  <1>b. ASSUME UNCHANGED <<script, filterIds, queue, issued>>, running' \in {running, None}
        PROVE  InStep'
    BY <1>0, <1>a, <1>b, <1>m DEF InStep, StopList, StartList, Asked, Nth
  <1>1. CASE Serial
    BY <1>0, <1>1, <1>b, QueueKept DEF Serial, monitorVars, InStep
  <1>2. CASE runCommandUnlocked /\ UNCHANGED <<page, polling, monitorVars>>
    <2>1. UNCHANGED <<script, filterIds, issued>> /\ queue # <<>> /\ queue' = Tail(queue)
          /\ running = None /\ running' \in {Head(queue), None}
      BY <1>2 DEF runCommandUnlocked, monitorVars
    <2>2. script.wait # 0  BY <1>a, <2>1
    <2>3. Head(queue) = queue[1] /\ 1 \in 1 .. Len(queue) /\ Len(Tail(queue)) = Len(queue) - 1
      BY <1>0, <2>1, Shifted
    <2>4. Asked(Head(queue)) /\ Len(queue) = 1
      <3>0. Len(queue) <= 1  BY <1>a, <2>2, Zenon
      <3>1. Len(queue) = 1
        <4>1. \A n \in Nat : 1 \in 1 .. n /\ n <= 1 => n = 1  OBVIOUS
        <4>2. Len(queue) \in Nat  BY <1>0
        <4> QED  BY <2>3, <3>0, <4>1, <4>2, Zenon
      <3>2. Asked(queue[1])  BY <1>a, <2>2, <2>3, Zenon
      <3> QED  BY <2>3, <3>1, <3>2
    <2>5. queue' = <<>>
      <3>1. Tail(queue) \in Seq(Commands) /\ Len(Tail(queue)) = 0  BY <1>0, <2>1, <2>3, <2>4
      <3> QED  BY <2>1, <3>1
    <2>6. running' # None => Asked(running)'  BY <2>1, <2>4 DEF Asked, Nth
    <2> QED  BY <1>a, <2>1, <2>2, <2>5, <2>6 DEF StopList
  <1>3. CASE Issue
    <2> DEFINE what == Head(script.todo)
               arg == IF what = "remove" THEN filterIds[Nth] ELSE -1
               c == [id |-> issued + 1, what |-> what, arg |-> arg]
    <2>1. /\ script.todo # <<>> /\ script.wait = 0
          /\ script' = [script EXCEPT !.wait = issued + 1]
          /\ filterIds' = IF script.fn = "stop" /\ what = "stop" THEN <<>> ELSE filterIds
          /\ queue' = Append(queue, c) /\ issued' = issued + 1 /\ UNCHANGED running
      BY <1>3 DEF Issue, runCommand, Nth
    <2>2. queue = <<>> /\ running = None  BY <1>a, <2>1
    <2>3. script'.fn = script.fn /\ script'.todo = script.todo /\ script'.wait = issued + 1
      BY <1>0, <2>1 DEF ScriptTypes
    <2>4. queue' = <<c>> /\ Len(queue') = 1 /\ queue'[1] = c
      <3> HIDE DEF c
      <3> QED  BY <2>1, <2>2
    <2>5. c.what = Head(script'.todo) /\ (c.what = "remove" => c.arg = filterIds'[Nth'])
      <3>1. c.what = Head(script'.todo)  BY <2>3
      <3>2. c.what = "remove" => filterIds' = filterIds /\ c.arg = filterIds[Nth]
        BY <2>1
      <3> HIDE DEF c
      <3> QED  BY <2>3, <3>1, <3>2 DEF Nth
    <2>6. script.fn = "stop" /\ what = "stop" => Len(script.todo) = 1
      BY <1>0, <1>a, StopListTail
    <2>7. script.fn = "stop" /\ Len(script.todo) = 1 => filterIds' = <<>>
      BY <1>0, <1>a, <2>1, StopListTail
    <2>8. script'.fn = "stop" => StopList(script.todo)'
      <3> SUFFICES ASSUME script.fn = "stop"  PROVE StopList(script.todo)'
        BY <2>3
      <3>1. StopList(script.todo)  BY <1>a
      <3>2. CASE what = "stop"
        <4>1. Len(script.todo) = 1 /\ filterIds' = <<>>  BY <2>6, <2>7, <3>2
        <4> QED  BY <2>3, <3>1, <4>1 DEF StopList
      <3>3. CASE what # "stop"
        <4>1. filterIds' = filterIds  BY <2>1, <3>3
        <4> QED  BY <2>3, <3>1, <4>1 DEF StopList
      <3> QED  BY <3>2, <3>3
    <2>9. script'.fn # "idle"  BY <1>a, <2>1, <2>3 DEF Idle
    <2> HIDE DEF c, what
    <2>10. \A i \in 1 .. Len(queue') : Asked(queue[i])'
      <3>1. \A i \in 1 .. Len(queue') : queue'[i] = c  BY <2>4
      <3> QED  BY <2>5, <3>1 DEF Asked
    <2>11. issued + 1 # 0 /\ 1 <= 1  BY <1>0
    <2> QED  BY <1>a, <2>1, <2>2, <2>3, <2>4, <2>7, <2>8, <2>9, <2>10, <2>11
  <1>4. CASE Continue
    <2>1. queue = <<>> /\ running = None  BY <1>4, ContinueSettled
    <2>2. UNCHANGED <<queue, running>>  BY <1>4 DEF Continue, serialVars, pageVars
    <2>3. script.todo # <<>> /\ script.fn \in {"start", "stop"}  BY <1>0, <1>4, ContinueCases
    <2>4. CASE script' = Idle  BY <2>1, <2>2, <2>4 DEF Idle
    <2>5. CASE /\ script' = [script EXCEPT !.todo = Tail(script.todo), !.wait = 0]
               /\ Tail(script.todo) # <<>>
               /\ filterIds' = filterIds \o SetToSeq(IF Head(script.todo) = "add"
                                                     THEN parseFilterId(last.text) ELSE {})
      <3>1. script'.fn = script.fn /\ script'.todo = Tail(script.todo) /\ script'.wait = 0
        BY <1>0, <2>5 DEF ScriptTypes
      <3>2. CASE script.fn = "start"
        <4>1. \A i \in 1 .. Len(Tail(script.todo)) :
                 Tail(script.todo)[i] = script.todo[i + 1] /\ i + 1 \in 1 .. Len(script.todo)
          BY <1>0, <2>3, Shifted
        <4>2. StartList(Tail(script.todo))  BY <1>a, <2>5, <3>2, <4>1 DEF StartList
        <4> QED  BY <2>1, <2>2, <3>1, <3>2, <4>2
      <3>3. CASE script.fn = "stop"
        <4>1. Head(script.todo) = "remove" /\ StopList(Tail(script.todo))
          BY <1>0, <1>a, <2>5, <3>3, StopListTail
        <4>2. filterIds' = filterIds  BY <1>0, <2>5, <4>1, NothingFound
        <4>3. StopList(script.todo)'  BY <3>1, <4>1, <4>2 DEF StopList
        <4> QED  BY <2>1, <2>2, <3>1, <3>3, <4>3
      <3> QED  BY <2>3, <3>2, <3>3
    <2> QED  BY <1>0, <1>4, <2>4, <2>5, ContinueCases
  <1>5. CASE startCapture
    <2>1. PICK filters \in {<<>>, <<"add">>, <<"add", "add">>} :
             script' = [fn |-> "start", wait |-> 0,
                        todo |-> <<"stop", "bitrate", "mode">> \o filters \o <<"start">>]
      BY <1>5 DEF startCapture
    <2>2. script = Idle /\ UNCHANGED <<queue, running>>
      BY <1>5 DEF startCapture, serialVars, pageVars
    <2>3. queue' = <<>> /\ running' = None  BY <1>a, <2>2 DEF Idle
    <2> DEFINE S == Kinds \ {"remove"}
               front == <<"stop", "bitrate", "mode">>
               back == <<"start">>
               one == <<"add">>
               two == <<"add", "add">>
               todo == front \o filters \o back
    <2>4. front \in Seq(S) /\ back \in Seq(S) /\ Len(back) = 1
      BY DEF Kinds
    <2>5. filters \in Seq(S)
      <3>1. <<>> \in Seq(S)  OBVIOUS
      <3>2. one \in Seq(S) /\ two \in Seq(S)  BY DEF Kinds
      <3>3. filters \in {<<>>, one, two}  OBVIOUS
      <3> HIDE DEF one, two, S
      <3> QED  BY <3>1, <3>2, <3>3
    <2>6. todo \in Seq(S) /\ todo # <<>>
      <3> HIDE DEF front, back, S
      <3>1. front \o filters \in Seq(S)  BY <2>4, <2>5
      <3>2. todo \in Seq(S) /\ Len(todo) = Len(front \o filters) + Len(back)
        BY <2>4, <3>1, ConcatProperties
      <3>3. Len(front \o filters) \in Nat  BY <3>1
      <3>4. Len(todo) # 0  BY <2>4, <3>2, <3>3
      <3> HIDE DEF todo
      <3>5. Len(<<>>) = 0  OBVIOUS
      <3>6. todo # <<>>  BY <3>4, <3>5, Zenon
      <3> QED  BY <3>2, <3>6
    <2>7. script'.fn = "start" /\ script'.wait = 0 /\ script'.todo = todo  BY <2>1
    <2>8. StartList(script'.todo)
      <3> HIDE DEF todo
      <3>1. \A i \in 1 .. Len(todo) : todo[i] \in S
        <4> HIDE DEF S
        <4> QED  BY <2>6
      <3> QED  BY <2>6, <2>7, <3>1 DEF StartList
    <2> HIDE DEF todo
    <2> QED  BY <2>3, <2>7, <2>8
  <1>6. CASE stopCapture
    <2> DEFINE removes == [i \in DOMAIN filterIds |-> "remove"]
               todo == removes \o <<"stop">>
    <2>1. script' = [fn |-> "stop", wait |-> 0, todo |-> todo]
          /\ script = Idle /\ UNCHANGED <<queue, running, filterIds>>
      BY <1>6 DEF stopCapture, serialVars, pageVars
    <2>2. queue' = <<>> /\ running' = None  BY <1>a, <2>1 DEF Idle
    <2>3. /\ removes \in Seq(Kinds) /\ Len(removes) = Len(filterIds)
          /\ \A i \in 1 .. Len(filterIds) : removes[i] = "remove"
      BY <1>0 DEF Kinds
    <2>4. <<"stop">> \in Seq(Kinds) /\ Len(<<"stop">>) = 1 /\ <<"stop">>[1] = "stop"
      BY DEF Kinds
    <2> HIDE DEF removes
    <2>5. /\ Len(todo) = Len(removes) + Len(<<"stop">>)
          /\ \A i \in 1 .. Len(removes) + Len(<<"stop">>) :
                todo[i] = IF i <= Len(removes) THEN removes[i] ELSE <<"stop">>[i - Len(removes)]
      BY <2>3, <2>4, ConcatProperties
    <2> HIDE DEF todo
    <2>6. Len(todo) = Len(filterIds) + 1  BY <2>3, <2>4, <2>5
    <2>7. \A i \in 1 .. Len(todo) : todo[i] = IF i = Len(todo) THEN "stop" ELSE "remove"
      <3> TAKE i \in 1 .. Len(todo)
      <3>1. CASE i = Len(todo)
        <4>1. i - Len(removes) = 1 /\ ~(i <= Len(removes))  BY <1>0, <2>3, <2>6, <3>1
        <4> QED  BY <2>3, <2>4, <2>5, <2>6, <3>1, <4>1
      <3>2. CASE i # Len(todo)
        <4>1. i \in 1 .. Len(filterIds) /\ i <= Len(removes)  BY <1>0, <2>3, <2>6, <3>2
        <4> QED  BY <2>3, <2>4, <2>5, <2>6, <3>2, <4>1
      <3> QED  BY <3>1, <3>2
    <2>8. todo # <<>>
      <3>1. Len(todo) # 0  BY <1>0, <2>6
      <3>2. Len(<<>>) = 0  OBVIOUS
      <3> QED  BY <3>1, <3>2, Zenon
    <2>9. StopList(todo)  BY <1>0, <2>6, <2>7, <2>8 DEF StopList
    <2>10. StopList(script.todo)'  BY <2>1, <2>9 DEF StopList
    <2> QED  BY <2>1, <2>2, <2>10
  <1>7. CASE UNCHANGED vars
    BY <1>7, <1>b DEF vars, monitorVars, serialVars, pageVars, InStep
  <1>8. CASE Press \/ startPolling \/ PollTick \/ stopPolling
    BY <1>8, <1>m DEF Press, startPolling, PollTick, stopPolling
  <1> QED
    BY <1>1, <1>2, <1>3, <1>4, <1>5, <1>6, <1>7, <1>8 DEF Next, SameTurn, Click

\* What parseFilterId finds in the answer to one command.
LEMMA ParsedOne ==
    ASSUME NEW t \in Tokens
    PROVE  parseFilterId({t}) = {t.filter} \ {-1}
  <1>1. t.of \in Nat /\ t.filter \in Int  BY DEF Tokens
  <1>2. CASE t.filter = -1  BY <1>2 DEF parseFilterId
  <1>3. CASE t.filter # -1
    <2>1. {u \in {t} : u.filter # -1} = {t}  BY <1>3
    <2>2. {u \in {t} : \A v \in {t} : u.of <= v.of} = {t}  BY <1>1
    <2> QED  BY <1>3, <2>1, <2>2 DEF parseFilterId
  <1> QED  BY <1>2, <1>3

\* Remembering the filter that was found.
LEMMA Remembered ==
    ASSUME NEW q \in Seq(Int), NEW f \in Int
    PROVE  ToSet(q \o SetToSeq({f} \ {-1})) = ToSet(q) \cup ({f} \ {-1})
  <1>1. CASE f = -1
    <2>1. {f} \ {-1} = {}  BY <1>1
    <2> QED  BY <2>1, NothingFound
  <1>2. CASE f # -1
    <2>1. {f} \ {-1} = {f}  BY <1>2
    <2>2. SetToSeq({f}) = <<f>>  BY SetToSeqOne
    <2>3. <<f>> \in Seq(Int) /\ Len(<<f>>) = 1 /\ <<f>>[1] = f  OBVIOUS
    <2> DEFINE r == <<f>>
    <2> HIDE DEF r
    <2>4. /\ Len(q \o r) = Len(q) + Len(r) /\ q \o r \in Seq(Int)
          /\ \A i \in 1 .. Len(q) + Len(r) :
                (q \o r)[i] = IF i <= Len(q) THEN q[i] ELSE r[i - Len(q)]
      BY <2>3, ConcatProperties DEF r
    <2>5. Len(r) = 1 /\ r[1] = f /\ Len(q) \in Nat  BY <2>3 DEF r
    <2>6. /\ \A i \in 1 .. Len(q) : (q \o r)[i] = q[i] /\ i \in 1 .. Len(q \o r)
          /\ (q \o r)[Len(q) + 1] = f /\ Len(q) + 1 \in 1 .. Len(q \o r)
          /\ \A i \in 1 .. Len(q \o r) : i \in 1 .. Len(q) \/ i = Len(q) + 1
      BY <2>4, <2>5
    <2>7. DOMAIN q = 1 .. Len(q) /\ DOMAIN (q \o r) = 1 .. Len(q \o r)  BY <2>4
    <2>8. ToSet(q \o r) = ToSet(q) \cup {f}  BY <2>6, <2>7 DEF ToSet
    <2> QED  BY <2>1, <2>2, <2>8 DEF r
  <1> QED  BY <1>1, <1>2

\* The history variables only ever go one way.
LEMMA History ==
    ASSUME PagesIInv, [Next]_vars
    PROVE  (own' => own) /\ (~cut' => ~cut)
  <1>0. OnePending /\ ScriptTypes /\ InStep  BY DEF PagesIInv
  <1>1. CASE WriteError \/ readLoop \/ Timers  BY <1>0, <1>1, SettlingSteps
  <1>2. CASE runCommandUnlocked  BY <1>2 DEF runCommandUnlocked
  <1>3. CASE Closed  BY <1>3 DEF Closed
  <1>4. CASE Open \/ CancelReader \/ ReleaseWriter \/ WriteDone \/ Execute \/ FramePrinted \/ TextLost
    BY <1>4
    DEF Open, CancelReader, ReleaseWriter, WriteDone, Execute, FramePrinted, TextLost, pageVars
  <1>5. ASSUME NEW what \in Kinds, NEW arg \in Int, runCommand(what, arg)
        PROVE  (own' => own) /\ (~cut' => ~cut)
    BY <1>5 DEF runCommand
  <1>6. CASE UNCHANGED serialVars  BY <1>6 DEF serialVars, pageVars
  <1> QED
    BY <1>0, <1>1, <1>2, <1>3, <1>4, <1>5, <1>6, SerialSteps DEF SerialNext, disconnect

\* The controller has the filters the monitor takes it to have: what the port
\* and the board do.
LEMMA FollowsSerial ==
    ASSUME PagesIInv, SerialNext, UNCHANGED <<page, monitorVars>>, own', ~cut', own, ~cut,
           page = "monitor"
    PROVE  Follows'
  <1>0. /\ PageTypes /\ BoardTypes /\ OnePending /\ InStep /\ Answered /\ InOrder /\ Follows
        /\ writes \in Seq(Lines) /\ dev \in Seq(Lines) /\ line \in Seq(Pieces)
        /\ running \in Lines /\ issued \in Nat /\ Len(queue) \in Nat
    BY DEF PagesIInv, PageTypes, BoardTypes
  <1>k. UNCHANGED <<queue, issued>> /\ UNCHANGED <<script, filterIds, capturing, page>>
    BY <1>0, QueueKept DEF monitorVars
  <1>e. Before' = Before /\ \A f \in Int : After(f)' = After(f)
    BY <1>k DEF Before, After, Nth
  <1>a. /\ script.wait = 0 => installed = Before
        /\ queue # <<>> => installed = Before
        /\ running # None /\ (writes # <<>> \/ dev # <<>>) => installed = Before
        /\ running # None =>
              \A i \in 1 .. Len(line) : \A t \in line[i].output :
                  t.of # 0 => installed = After(t.filter)
        /\ running # None => \A t \in pending.text : t.of # 0 => installed = After(t.filter)
        /\ script.wait # 0 /\ last.id = script.wait =>
              \A t \in last.text : installed = After(t.filter)
        /\ script = Idle /\ ~capturing => filterIds = <<>>
    BY <1>0 DEF Follows
  <1>f. /\ \A i \in 1 .. Len(line) : \A t \in line[i].output : t.filter \in Int
        /\ \A t \in pending.text : t.filter \in Int
        /\ \A t \in last.text : t.filter \in Int
    <2>1. \A text \in Texts : \A t \in text : t.filter \in Int  BY DEF Texts, Tokens
    <2>2. \A i \in 1 .. Len(line) : line[i].output \in Texts
      <3>1. \A i \in 1 .. Len(line) : line[i] \in Pieces  BY <1>0
      <3> QED  BY <3>1 DEF Pieces
    <2>3. pending.text \in Texts /\ last.text \in Texts  BY <1>0 DEF PageTypes
    <2> QED  BY <2>1, <2>2, <2>3
  <1> SUFFICES
         /\ script.wait = 0 => installed' = Before
         /\ queue # <<>> => installed' = Before
         /\ running' # None /\ (writes' # <<>> \/ dev' # <<>>) => installed' = Before
         /\ running' # None =>
               \A i \in 1 .. Len(line') : \A t \in line'[i].output :
                   t.of # 0 => t.filter \in Int /\ installed' = After(t.filter)
         /\ running' # None => \A t \in pending'.text :
                                  t.of # 0 => t.filter \in Int /\ installed' = After(t.filter)
         /\ script.wait # 0 /\ last'.id = script.wait =>
               \A t \in last'.text : t.filter \in Int /\ installed' = After(t.filter)
    <2>1. \A f \in Int : After(f)' = After(f)  BY <1>e
    <2>2. Before' = Before  BY <1>e
    <2> QED  BY <1>a, <1>k, <2>1, <2>2 DEF Follows
  <1>1. CASE /\ UNCHANGED <<installed, last>>
             /\ \/ running' = None
                \/ UNCHANGED <<running, writes, dev, line, pending>>
    BY <1>1, <1>a, <1>f
  <1>2. CASE Open
    <2>1. running # None => cut  BY <1>0, <1>2 DEF Open, OnePending
    <2>2. running' = None /\ UNCHANGED <<installed, last>>
      BY <1>2, <2>1 DEF Open, pageVars, boardVars
    <2> QED  BY <1>1, <2>2
  <1>3. CASE CancelReader \/ ReleaseWriter
    BY <1>1, <1>3 DEF CancelReader, ReleaseWriter, pageVars, boardVars
  <1>4. CASE Closed
    <2>1. running' = None /\ UNCHANGED <<installed, last>>  BY <1>4 DEF Closed, boardVars
    <2> QED  BY <1>1, <2>1
  <1>5. CASE WriteDone
    <2>1. UNCHANGED <<installed, last, running, line, pending>> /\ writes # <<>>
      BY <1>5 DEF WriteDone, pageVars
    <2> QED  BY <1>a, <1>f, <2>1
  <1>6. CASE WriteError
    <2>1. UNCHANGED <<installed>> /\ writes # <<>>  BY <1>6 DEF WriteError, boardVars
    <2>2. CASE running # None
      <3>1. writes[Len(writes)] = running /\ Len(writes) \in DOMAIN writes
        BY <1>0, <2>1, <2>2 DEF OnePending
      <3>2. running \in ToSet(writes)  BY <3>1 DEF ToSet
      <3>3. Settle("rejected", {})  BY <1>6, <2>2, <3>2 DEF WriteError
      <3>4. ~own'  BY <3>3, Zenon DEF Settle
      <3> QED  BY <3>4
    <2>3. CASE running = None
      <3>1. UNCHANGED <<last, running>>  BY <1>6, <2>3 DEF WriteError
      <3> QED  BY <1>1, <2>1, <2>3, <3>1
    <2> QED  BY <2>2, <2>3
  <1>t. ASSUME line # <<>>, line' = Tail(line), running # None
        PROVE  /\ \A i \in 1 .. Len(line') : \A t \in line'[i].output :
                     t.of # 0 => t.filter \in Int /\ installed = After(t.filter)
               /\ \A t \in Head(line).output :
                     t.of # 0 => t.filter \in Int /\ installed = After(t.filter)
    <2>1. /\ Head(line) = line[1] /\ 1 \in 1 .. Len(line)
          /\ \A i \in 1 .. Len(line') : line'[i] = line[i + 1] /\ i + 1 \in 1 .. Len(line)
      BY <1>0, <1>t, Shifted
    <2>2. \A i \in 1 .. Len(line) : \A t \in line[i].output :
             t.of # 0 => t.filter \in Int /\ installed = After(t.filter)
      BY <1>a, <1>f, <1>t
    <2> QED  BY <2>1, <2>2
  <1>7. CASE readLoop
    <2> DEFINE text == pending.text \cup Head(line).output
    <2>1. UNCHANGED <<installed, dev, writes>> /\ line # <<>> /\ line' = Tail(line)
      BY <1>7 DEF readLoop, boardVars
    <2>2. ASSUME running # None
          PROVE  \A t \in text : t.of # 0 => t.filter \in Int /\ installed = After(t.filter)
      <3>1. \A t \in pending.text : t.of # 0 => t.filter \in Int /\ installed = After(t.filter)
        BY <1>a, <1>f, <2>2
      <3> QED  BY <1>t, <2>1, <2>2, <3>1
    <2>3. CASE UNCHANGED <<running, last>> /\ pending'.text \in {pending.text, text}
      <3>1. running # None => \A t \in pending'.text :
                                 t.of # 0 => t.filter \in Int /\ installed = After(t.filter)
        BY <2>2, <2>3
      <3> HIDE DEF text
      <3> QED  BY <1>a, <1>f, <1>t, <2>1, <2>3, <3>1
    <2>4. CASE pending.on /\ Settle("prompt", text)
      <3>1. Sources(text) = {running.id}  BY <2>4, Zenon DEF Settle
      <3>2. running' = None /\ last'.id = running.id /\ last'.text = text  BY <2>4 DEF Settle
      <3>3. running # None /\ running.id # 0  BY <1>0, <2>4, NoneIsNone DEF OnePending
      <3>4. \A t \in text : t.of # 0
        <4> HIDE DEF text
        <4> QED  BY <3>1, <3>3 DEF Sources
      <3>5. script.wait # 0 /\ queue = <<>>  BY <1>0, <3>3 DEF InStep
      <3> HIDE DEF text
      <3> QED  BY <2>1, <2>2, <3>2, <3>3, <3>4, <3>5
    <2> QED  BY <1>0, <1>7, <2>3, <2>4 DEF readLoop, Finish, PageTypes
  <1>8. ASSUME NEW c \in timers, Timeout(c)
        PROVE  UNCHANGED <<installed, last, running, writes, dev, line, pending>>
    <2>1. UNCHANGED <<installed, writes, dev, line>>  BY <1>8 DEF Timeout, boardVars
    <2>2. CASE pending.on
      <3>1. running.id = c  BY <1>0, <2>2 DEF OnePending
      <3>2. Settle("timeout", pending.text)  BY <1>8, <2>2, <3>1 DEF Timeout
      <3>3. ~own'  BY <3>2, Zenon DEF Settle
      <3> QED  BY <3>3
    <2>3. CASE ~pending.on  BY <1>8, <2>1, <2>3 DEF Timeout
    <2> QED  BY <2>2, <2>3
  <1>9. CASE Timers  BY <1>1, <1>8, <1>9 DEF Timers
  <1>10. CASE Execute
    <2>1. UNCHANGED <<last, running, pending, writes>>  BY <1>10 DEF Execute, pageVars
    <2>2. PICK f \in Int :
             /\ dev # <<>> /\ dev' = Tail(dev) /\ Head(dev) \in Lines
             /\ Len(line) \in Nat /\ Len(line') = Len(line) + 2
             /\ \A i \in 1 .. Len(line) : line'[i] = line[i]
             /\ line'[Len(line) + 1].output =
                   IF Head(dev) = None THEN {} ELSE {[of |-> Head(dev).id, filter |-> f]}
             /\ line'[Len(line) + 2].output = {}
             /\ \A i \in 1 .. Len(line') :
                   i \in 1 .. Len(line) \/ i = Len(line) + 1 \/ i = Len(line) + 2
             /\ installed' = CASE Head(dev).what = "add" -> installed \cup ({f} \ {-1})
                               [] Head(dev).what = "remove" -> installed \ {Head(dev).arg}
                               [] OTHER -> installed
      BY <1>0, <1>10, ExecuteStep
    <2>3. CASE Head(dev) = None
      <3>1. installed' = installed  BY <2>2, <2>3, NoneIsNone
      <3>2. line'[Len(line) + 1].output = {}  BY <2>2, <2>3
      <3>3. running # None =>
               \A i \in 1 .. Len(line') : \A t \in line'[i].output :
                   t.of # 0 => t.filter \in Int /\ installed = After(t.filter)
        BY <1>a, <1>f, <2>2, <3>2
      <3> QED  BY <1>a, <1>f, <2>1, <2>2, <3>1, <3>3
    <2>4. CASE Head(dev) # None
      <3>1. running # None
        <4> SUFFICES ASSUME running = None  PROVE FALSE
          OBVIOUS
        <4>1. Bare(dev)  BY <1>0 DEF Answered
        <4> QED  BY <1>0, <2>2, <2>4, <4>1, BareSequences
      <3>2. Received
        <4>1. Traced  BY <1>0, <3>1 DEF Answered
        <4>2. ~Sent  BY <1>0, <2>2, <2>4, BareSequences DEF Sent
        <4> QED  BY <2>2, <4>1, <4>2 DEF Traced, Printed, Arrived
      <3>3. Head(dev) = running /\ Tail(dev) = <<>>
        BY <1>0, <2>4, <3>2, EndingSequences DEF Received
      <3>4. /\ script.wait # 0 /\ queue = <<>> /\ Asked(running) /\ script.wait = issued
        BY <1>0, <3>1 DEF InStep
      <3>5. installed = Before  BY <1>a, <2>2, <3>1
      <3>6. installed' = After(f)
        BY <2>2, <3>3, <3>4, <3>5 DEF After, Asked
      <3>7. last.id # script.wait
        <4>1. Len(queue) = 0  BY <3>4
        <4>2. last.id = issued - 1  BY <1>0, <3>1, <4>1 DEF InOrder, Begun
        <4> QED  BY <1>0, <3>4, <4>2
      <3>8. \A t \in line'[Len(line) + 1].output : t.filter = f  BY <2>2, <2>4
      <3>9. \A i \in 1 .. Len(line) : \A t \in line'[i].output : t.of = 0
        BY <2>2, <3>2 DEF Received, Mute, Blank
      <3>10. \A t \in pending'.text : t.of = 0  BY <2>1, <3>2 DEF Received, Blank
      <3>11. writes' = <<>> /\ dev' = <<>>  BY <2>1, <2>2, <3>2, <3>3 DEF Received
      <3>12. \A i \in 1 .. Len(line') : \A t \in line'[i].output :
                t.of # 0 => t.filter \in Int /\ installed' = After(t.filter)
        BY <2>2, <3>6, <3>8, <3>9
      <3> QED  BY <2>1, <3>4, <3>7, <3>10, <3>11, <3>12
    <2> QED  BY <2>3, <2>4
  <1>11. CASE FramePrinted
    <2> DEFINE piece == [output |-> {[of |-> 0, filter |-> -1]}, prompt |-> TRUE]
    <2>1. UNCHANGED <<installed, last, running, pending, writes, dev>> /\ line' = Append(line, piece)
      BY <1>11 DEF FramePrinted, boardVars
    <2>2. piece \in Pieces /\ \A t \in piece.output : t.of = 0
      <3>1. [of |-> 0, filter |-> -1] \in Tokens  BY DEF Tokens
      <3> QED  BY <3>1, TextTypes DEF Pieces
    <2> HIDE DEF piece
    <2>3. /\ \A i \in 1 .. Len(line) : line'[i] = line[i]
          /\ line'[Len(line) + 1] = piece
          /\ \A i \in 1 .. Len(line') : i \in 1 .. Len(line) \/ i = Len(line) + 1
      BY <1>0, <2>1, <2>2, Extended
    <2>4. running # None =>
             \A i \in 1 .. Len(line') : \A t \in line'[i].output :
                 t.of # 0 => t.filter \in Int /\ installed = After(t.filter)
      BY <1>a, <1>f, <2>2, <2>3
    <2> QED  BY <1>a, <1>f, <2>1, <2>4
  <1>12. CASE TextLost
    <2>1. UNCHANGED <<installed, last, running, pending, writes, dev>>
          /\ line # <<>> /\ line' = Tail(line)
      BY <1>12 DEF TextLost, pageVars, boardVars
    <2> QED  BY <1>a, <1>f, <1>t, <2>1
  <1> QED
    BY <1>2, <1>3, <1>4, <1>5, <1>6, <1>7, <1>9, <1>10, <1>11, <1>12 DEF SerialNext, disconnect

\* The controller has the filters the monitor takes it to have: every step.
LEMMA FollowsStep ==
    ASSUME PagesIInv, [Next]_vars
    PROVE  Follows'
  <1>0. /\ PageTypes /\ BoardTypes /\ ScriptTypes /\ OnePending /\ InStep /\ Answered
        /\ InOrder /\ Follows
        /\ running \in Lines /\ issued \in Nat /\ Len(queue) \in Nat /\ queue \in Seq(Commands)
        /\ filterIds \in Seq(Int) /\ script.todo \in Seq(Kinds)
        /\ Len(filterIds) \in Nat /\ Len(script.todo) \in Nat
    BY DEF PagesIInv, PageTypes, ScriptTypes
  <1> SUFFICES ASSUME page' = "monitor", own', ~cut'
               PROVE  Follows'
    BY DEF Follows
  <1>h. own /\ ~cut  BY History
  <1>m. page = "monitor"
    BY DEF Next, SameTurn, Serial, Click, Press, startPolling, PollTick, stopPolling,
           startCapture, stopCapture, Issue, Continue, vars
  <1>a. /\ script.wait = 0 => installed = Before
        /\ queue # <<>> => installed = Before
        /\ running # None /\ (writes # <<>> \/ dev # <<>>) => installed = Before
        /\ running # None =>
              \A i \in 1 .. Len(line) : \A t \in line[i].output :
                  t.of # 0 => installed = After(t.filter)
        /\ running # None => \A t \in pending.text : t.of # 0 => installed = After(t.filter)
        /\ script.wait # 0 /\ last.id = script.wait =>
              \A t \in last.text : installed = After(t.filter)
        /\ script = Idle /\ ~capturing => filterIds = <<>>
    BY <1>0, <1>h, <1>m DEF Follows
  <1>d. DOMAIN filterIds = 1 .. Len(filterIds)  BY <1>0
  <1>1. CASE Serial  BY <1>1, <1>h, <1>m, FollowsSerial DEF Serial
  <1>2. CASE UNCHANGED vars
    <2>1. UNCHANGED <<script, filterIds, capturing, page, queue, running, writes, dev, line,
                      pending, last, installed, own, cut>>
      BY <1>2 DEF vars, monitorVars, serialVars, pageVars, boardVars
    <2>2. Before' = Before /\ \A f : After(f)' = After(f)  BY <2>1 DEF Before, After, Nth
    <2> QED  BY <1>a, <2>1, <2>2 DEF Follows
  <1>s. ASSUME running' = None, queue' = <<>>, script'.wait = 0, installed' = Before',
               script' = Idle /\ ~capturing' => filterIds' = <<>>
        PROVE  Follows'
    BY <1>s DEF Follows
  <1>3. CASE runCommandUnlocked /\ UNCHANGED <<page, polling, monitorVars>>
    <2>1. /\ UNCHANGED <<script, filterIds, capturing, installed, dev, line, last>>
          /\ queue # <<>> /\ queue' = Tail(queue) /\ running = None
          /\ running' = Head(queue) /\ pending' = [on |-> TRUE, text |-> {}]
      BY <1>3 DEF runCommandUnlocked, monitorVars, boardVars
    <2>2. script.wait # 0 /\ script.wait = issued /\ Len(queue) # 0
      BY <1>0, <1>m, <2>1 DEF InStep
    <2>3. last.id # script.wait  BY <1>0, <2>1, <2>2 DEF InOrder, Begun
    <2>4. installed = Before /\ Before' = Before  BY <1>a, <2>1 DEF Before, Nth
    <2>5. Mute(line)  BY <1>0, <1>h, <2>1 DEF Answered
    <2>6. \A i \in 1 .. Len(line') : \A t \in line'[i].output : t.of = 0
      BY <2>1, <2>5 DEF Mute, Blank
    <2>7. script' = Idle /\ ~capturing' => filterIds' = <<>>  BY <1>a, <2>1
    <2> QED  BY <2>1, <2>2, <2>3, <2>4, <2>6, <2>7 DEF Follows
  <1>4. CASE Issue
    <2>1. /\ script.todo # <<>> /\ script.wait = 0
          /\ script' = [script EXCEPT !.wait = issued + 1]
          /\ filterIds' = IF script.fn = "stop" /\ Head(script.todo) = "stop" THEN <<>> ELSE filterIds
          /\ UNCHANGED <<running, last, installed, writes, dev, line, pending>>
      BY <1>4 DEF Issue, runCommand, boardVars
    <2>2. queue = <<>> /\ running = None /\ installed = Before /\ last.id = issued
      <3>1. queue = <<>> /\ running = None  BY <1>0, <1>m, <2>1 DEF InStep
      <3>2. last.id = issued  BY <1>0, <3>1 DEF InOrder, Begun
      <3> QED  BY <1>a, <2>1, <3>1, <3>2
    <2>3. script'.fn = script.fn /\ script'.todo = script.todo /\ script'.wait = issued + 1
      BY <1>0, <2>1 DEF ScriptTypes
    <2>4. Before' = Before
      <3>1. CASE script.fn = "stop" /\ Head(script.todo) = "stop"
        <4>1. Len(script.todo) = 1  BY <1>0, <1>m, <3>1, StopListTail DEF InStep
        <4>2. Nth - 1 = Len(filterIds)  BY <1>0, <4>1 DEF Nth
        <4>3. Before = {}  BY <1>d, <3>1, <4>2 DEF Before, ToSet
        <4>4. filterIds' = <<>>  BY <2>1, <3>1
        <4>5. Before' = {}  BY <2>3, <3>1, <4>4 DEF Before, ToSet
        <4> QED  BY <4>3, <4>5
      <3>2. CASE ~(script.fn = "stop" /\ Head(script.todo) = "stop")
        <4>1. filterIds' = filterIds  BY <2>1, <3>2
        <4> QED  BY <2>3, <4>1 DEF Before, Nth
      <3> QED  BY <3>1, <3>2
    <2>5. script'.wait # 0 /\ last'.id # script'.wait /\ script' # Idle
      BY <1>0, <2>1, <2>2, <2>3 DEF Idle
    <2> QED  BY <2>1, <2>2, <2>4, <2>5 DEF Follows
  <1>5. CASE Continue
    <2>1. queue' = <<>> /\ running' = None /\ UNCHANGED installed
      BY <1>5, ContinueSettled DEF Continue, serialVars, pageVars, boardVars
    <2>2. script.wait # 0 /\ last.id = script.wait  BY <1>5 DEF Continue
    <2>3. last.end # "rejected" /\ Sources(last.text) = {last.id} /\ \A t, u \in last.text : t = u
      BY <1>0, <1>h, <2>2 DEF Answered
    <2>4. PICK t : last.text = {t}
      <3>1. last.text # {}  BY <2>3 DEF Sources
      <3> QED  BY <2>3, <3>1
    <2>5. t \in Tokens /\ t.filter \in Int  BY <1>0, <2>4 DEF PageTypes, Texts, Tokens
    <2>6. installed = After(t.filter)  BY <1>a, <2>2, <2>4
    <2> DEFINE found == IF Head(script.todo) = "add" THEN parseFilterId(last.text) ELSE {}
    <2>7. /\ script.todo # <<>> /\ script.fn \in {"start", "stop"}
          /\ filterIds' = filterIds \o SetToSeq(found)
          /\ script' = IF Tail(script.todo) = <<>> THEN Idle
                       ELSE [script EXCEPT !.todo = Tail(script.todo), !.wait = 0]
          /\ capturing' = IF Tail(script.todo) = <<>> THEN script.fn = "start" ELSE capturing
      BY <1>0, <1>5, <2>3, ContinueCases
    <2>8. script'.wait = 0 /\ script'.fn \in {"idle", script.fn}
      BY <1>0, <2>7 DEF Idle, ScriptTypes
    <2>9. CASE script.fn = "start"
      <3>1. Head(script.todo) # "remove"
        <4>1. StartList(script.todo)  BY <1>0, <1>m, <2>9 DEF InStep
        <4>2. Head(script.todo) = script.todo[1] /\ 1 \in 1 .. Len(script.todo)
          BY <1>0, <2>7, Shifted
        <4> QED  BY <4>1, <4>2 DEF StartList
      <3>2. found = IF Head(script.todo) = "add" THEN {t.filter} \ {-1} ELSE {}
        BY <2>4, <2>5, ParsedOne
      <3>3. Before = ToSet(filterIds)  BY <2>9 DEF Before
      <3>4. Before' = ToSet(filterIds')  BY <2>8, <2>9 DEF Before
      <3> HIDE DEF found
      <3>5. ToSet(filterIds') = IF Head(script.todo) = "add"
                                THEN ToSet(filterIds) \cup ({t.filter} \ {-1}) ELSE ToSet(filterIds)
        <4>1. CASE Head(script.todo) = "add"
          BY <1>0, <2>5, <2>7, <3>2, <4>1, Remembered
        <4>2. CASE Head(script.todo) # "add"
          BY <1>0, <2>7, <3>2, <4>2, NothingFound
        <4> QED  BY <4>1, <4>2
      <3>6. installed = Before'  BY <2>6, <3>1, <3>3, <3>4, <3>5 DEF After
      <3>7. script' = Idle => capturing'
        BY <1>0, <2>7, <2>9 DEF Idle, ScriptTypes
      <3> QED  BY <1>s, <2>1, <2>8, <3>6, <3>7
    <2>10. CASE script.fn = "stop"
      <3>1. StopList(script.todo)  BY <1>0, <1>m, <2>10 DEF InStep
      <3>2. Head(script.todo) \in {"stop", "remove"}  BY <1>0, <3>1, StopListTail
      <3>3. filterIds' = filterIds  BY <1>0, <2>7, <3>2, NothingFound
      <3>4. CASE Len(script.todo) = 1
        <4>1. Head(script.todo) = "stop" /\ Tail(script.todo) = <<>>
          BY <1>0, <3>1, <3>4, StopListTail
        <4>2. filterIds = <<>>  BY <1>0, <1>m, <2>2, <2>10, <3>4 DEF InStep
        <4>3. installed = {}  BY <2>6, <2>10, <4>1, <4>2 DEF After, Before, ToSet
        <4>4. Before' = {}  BY <2>7, <3>3, <4>1, <4>2 DEF Before, ToSet, Idle
        <4> QED  BY <1>s, <2>1, <2>8, <3>3, <4>2, <4>3, <4>4
      <3>5. CASE Len(script.todo) # 1
        <4>1. Head(script.todo) = "remove" /\ StopList(Tail(script.todo))
              /\ Len(Tail(script.todo)) = Len(script.todo) - 1
          BY <1>0, <3>1, <3>5, StopListTail
        <4>2. Tail(script.todo) # <<>>  BY <4>1 DEF StopList
        <4>3. script'.fn = "stop" /\ script'.todo = Tail(script.todo)
          BY <1>0, <2>7, <2>10, <4>2 DEF ScriptTypes
        <4>4. Nth' = Nth + 1 /\ Nth \in Int
          <5>1. \A m, n \in Nat : n + 2 - (m - 1) = n + 2 - m + 1 /\ n + 2 - m \in Int  OBVIOUS
          <5>2. Nth' = Len(filterIds) + 2 - (Len(script.todo) - 1)
            BY <3>3, <4>1, <4>3 DEF Nth
          <5> QED  BY <1>0, <5>1, <5>2 DEF Nth
        <4>5. Nth >= 1  BY <1>0, <3>1 DEF StopList, Nth
        <4>6. installed = (ToSet(filterIds) \ {filterIds[i] : i \in 1 .. Nth - 1}) \ {filterIds[Nth]}
          BY <2>6, <2>10, <4>1 DEF After, Before
        <4>7. Before' = ToSet(filterIds) \ {filterIds[i] : i \in 1 .. Nth}
          BY <3>3, <4>3, <4>4 DEF Before
        <4>8. \A i \in 1 .. Nth : i \in 1 .. Nth - 1 \/ i = Nth  BY <4>4
        <4>9. Nth \in 1 .. Nth /\ \A i \in 1 .. Nth - 1 : i \in 1 .. Nth  BY <4>4, <4>5
        <4>10. installed = Before'  BY <4>6, <4>7, <4>8, <4>9
        <4>11. script' # Idle  BY <4>3 DEF Idle
        <4> QED  BY <1>s, <2>1, <2>8, <4>10, <4>11
      <3> QED  BY <3>4, <3>5
    <2> QED  BY <2>7, <2>9, <2>10
  <1>6. CASE startCapture
    <2>1. /\ script = Idle /\ ~capturing /\ filterIds' = <<>>
          /\ UNCHANGED <<queue, running, installed>> /\ script'.fn = "start" /\ script'.wait = 0
      BY <1>6 DEF startCapture, serialVars, pageVars, boardVars
    <2>2. queue = <<>> /\ running = None  BY <1>0, <1>m, <2>1 DEF InStep, Idle
    <2>3. installed = {}  BY <1>a, <2>1 DEF Before, Idle, ToSet
    <2>4. Before' = {}  BY <2>1 DEF Before, ToSet
    <2> QED  BY <1>s, <2>1, <2>2, <2>3, <2>4
  <1>7. CASE stopCapture
    <2> DEFINE removes == [i \in DOMAIN filterIds |-> "remove"]
    <2>1. /\ script = Idle /\ UNCHANGED <<queue, running, installed, filterIds>>
          /\ script' = [fn |-> "stop", wait |-> 0, todo |-> removes \o <<"stop">>]
      BY <1>7 DEF stopCapture, serialVars, pageVars, boardVars
    <2>2. queue = <<>> /\ running = None  BY <1>0, <1>m, <2>1 DEF InStep, Idle
    <2>3. removes \in Seq(Kinds) /\ Len(removes) = Len(filterIds) /\ <<"stop">> \in Seq(Kinds)
          /\ Len(<<"stop">>) = 1
      BY <1>0, <1>d DEF Kinds
    <2> HIDE DEF removes
    <2>4. Len(removes \o <<"stop">>) = Len(filterIds) + 1
      BY <2>3, ConcatProperties
    <2>5. script'.fn = "stop" /\ script'.wait = 0 /\ script'.todo = removes \o <<"stop">>
      BY <2>1
    <2>6. Nth' = 1  BY <1>0, <2>1, <2>4, <2>5 DEF Nth
    <2>7. Before' = ToSet(filterIds)  BY <2>1, <2>5, <2>6 DEF Before
    <2>8. installed = ToSet(filterIds)  BY <1>a, <2>1 DEF Before, Idle
    <2>9. script' # Idle  BY <2>5 DEF Idle
    <2> QED  BY <1>s, <2>1, <2>2, <2>5, <2>7, <2>8, <2>9
  <1>8. CASE Press \/ startPolling \/ PollTick \/ stopPolling
    BY <1>8, <1>m DEF Press, startPolling, PollTick, stopPolling
  <1> QED
    BY <1>1, <1>2, <1>3, <1>4, <1>5, <1>6, <1>7, <1>8 DEF Next, SameTurn, Click

\* The invariant holds when a page is opened.
LEMMA PagesStart ==
    ASSUME Init
    PROVE  PagesIInv
  <1> USE DEF Init, SerialInit
  <1>0. None \in Lines /\ {} \in Texts  BY TextTypes DEF Lines
  <1>1. PageTypes
    <2>1. last \in [id : Nat, end : Ends, text : Texts, quiet : BOOLEAN]  BY <1>0 DEF Ends
    <2>2. pending \in [on : BOOLEAN, text : Texts]  BY <1>0 DEF Empty
    <2>3. issued \in 0 .. MAX_COMMANDS  BY WebAssumption
    <2>4. queue \in Seq(Commands) /\ timers \subseteq 1 .. issued  OBVIOUS
    <2>5. running \in Lines /\ conn \in {"closed", "open", "closing", "released"}  BY <1>0
    <2>6. broken \in BOOLEAN /\ quiet \in BOOLEAN /\ own \in BOOLEAN /\ cut \in BOOLEAN  BY Zenon
    <2> QED  BY <2>1, <2>2, <2>3, <2>4, <2>5, <2>6 DEF PageTypes
  <1>2. BoardTypes
    <2>1. <<>> \in Seq(Lines) /\ <<>> \in Seq(Pieces)  OBVIOUS
    <2>2. started \in BOOLEAN  BY Zenon
    <2>3. installed = {} /\ writes = <<>> /\ dev = <<>> /\ line = <<>>  OBVIOUS
    <2> QED  BY <2>1, <2>2, <2>3 DEF BoardTypes
  <1>3. ScriptTypes
    <2>1. polling \in BOOLEAN /\ capturing \in BOOLEAN  BY Zenon
    <2>2. script \in [fn : {"idle", "start", "stop"}, todo : Seq(Kinds), wait : Nat]  BY DEF Idle
    <2>3. filterIds \in Seq(Int) /\ page \in {"bench", "monitor"}  OBVIOUS
    <2> QED  BY <2>1, <2>2, <2>3 DEF ScriptTypes
  <1>4. InOrder
    <2>1. queue = <<>> /\ Len(<<>>) = 0 /\ issued = 0 /\ running = None /\ last.id = 0  OBVIOUS
    <2> HIDE DEF Init, SerialInit
    <2>2. Len(queue) = 0  BY <2>1, Zenon
    <2>3. issued = 0 /\ running = None /\ last.id = 0  BY <2>1
    <2>4. Begun = 0  BY <2>2, <2>3 DEF Begun
    <2> QED  BY <2>2, <2>3, <2>4 DEF InOrder
  <1>5. OnePending  BY DEF OnePending, Empty
  <1>6. Undisturbed /\ OwnAnswer  BY DEF Undisturbed, OwnAnswer
  <1>7. Answered  BY DEF Answered, Bare, Mute
  <1>8. InStep  BY DEF InStep, Idle
  <1>9. Follows  BY DEF Follows, Before, Idle, ToSet
  <1> QED  BY <1>1, <1>2, <1>3, <1>4, <1>5, <1>6, <1>7, <1>8, <1>9 DEF PagesIInv

----------------------------------------------------------------------------
(* The theorems *)

\* The commands of a page are settled one by one, the running one is pending
\* with its timer until a disconnect forgets it, and as long as every command
\* gets its own answer the board's filters are those that are remembered.
THEOREM PagesInvariant == Spec => []PagesIInv
  <1>1. Init => PagesIInv  BY PagesStart
  <1>2. PagesIInv /\ [Next]_vars => PagesIInv'
    <2> SUFFICES ASSUME PagesIInv, [Next]_vars  PROVE PagesIInv'
      OBVIOUS
    <2> QED
      BY SerialTypesStep, ScriptTypesStep, InOrderStep, OnePendingStep, UndisturbedStep,
         OwnAnswerStep, AnsweredStep, InStepStep, FollowsStep
      DEF PagesIInv
  <1> QED  BY <1>1, <1>2, PTL DEF Spec

\* The variables keep their types, a command is pending only while it runs, and
\* its timer is the only one (runCommandUnlocked).
THEOREM PagesTypeOK == Spec => []TypeOK
  <1>1. PagesIInv => TypeOK
    BY DEF PagesIInv, TypeOK, PageTypes, BoardTypes, ScriptTypes, OnePending
  <1> QED  BY <1>1, PagesInvariant, PTL

\* A response holds the output of its own command and nothing else, when the
\* board owed the page nothing as the command was written (readLoop, finish).
THEOREM AnswersAreOwn == Spec => []OwnAnswer
  <1>1. PagesIInv => OwnAnswer  BY DEF PagesIInv
  <1> QED  BY <1>1, PagesInvariant, PTL

\* Between startCapture and stopCapture the monitor remembers exactly the
\* filters of the controller, as long as every command got its own answer.
THEOREM FiltersAreRemembered == Spec => []FiltersRemembered
  <1>1. PagesIInv => FiltersRemembered
    <2> SUFFICES ASSUME PagesIInv, page = "monitor", own, script = Idle
                 PROVE  ToSet(filterIds) = installed
      BY DEF FiltersRemembered
    <2>1. running = None  BY DEF PagesIInv, InStep, Idle
    <2>2. ~cut  BY <2>1 DEF PagesIInv, OnePending
    <2>3. installed = Before  BY <2>2 DEF PagesIInv, Follows, Idle
    <2> QED  BY <2>3 DEF Before, Idle
  <1> QED  BY <1>1, PagesInvariant, PTL

\* A command that disconnect forgets blocks the queue for good: it is never
\* settled, and no command behind it is ever started (disconnect, runCommand).
THEOREM ForgottenBlocks ==
    Spec => [][cut => cut' /\ running' = running /\ last' = last /\ ~pending'.on]_vars
  <1>1. PagesIInv /\ [Next]_vars =>
           [cut => cut' /\ running' = running /\ last' = last /\ ~pending'.on]_vars
    <2> SUFFICES ASSUME PagesIInv, [Next]_vars, cut
                 PROVE  cut' /\ running' = running /\ last' = last /\ ~pending'.on
      OBVIOUS
    <2>1. /\ OnePending /\ ScriptTypes /\ InStep /\ running # None /\ ~pending.on
          /\ \A i \in 1 .. Len(writes) : writes[i] = None
          /\ writes \in Seq(Lines)
      BY DEF PagesIInv, OnePending, Bare, BoardTypes
    <2>2. CASE WriteError
      <3>1. running \notin ToSet(writes)  BY <2>1 DEF ToSet
      <3> QED  BY <2>1, <2>2, <3>1 DEF WriteError, Empty
    <2>3. CASE readLoop  BY <2>1, <2>3 DEF readLoop
    <2>4. CASE Timers  BY <2>1, <2>4 DEF Timers, Timeout
    <2>5. CASE runCommandUnlocked  BY <2>1, <2>5 DEF runCommandUnlocked
    <2>6. CASE Closed  BY <2>1, <2>6 DEF Closed, Empty
    <2>7. CASE Open \/ CancelReader \/ ReleaseWriter \/ WriteDone \/ Execute \/ FramePrinted \/ TextLost
      BY <2>1, <2>7
      DEF Open, CancelReader, ReleaseWriter, WriteDone, Execute, FramePrinted, TextLost, pageVars
    <2>8. ASSUME NEW what \in Kinds, NEW arg \in Int, runCommand(what, arg)
          PROVE  cut' /\ running' = running /\ last' = last /\ ~pending'.on
      BY <2>1, <2>8 DEF runCommand
    <2>9. CASE UNCHANGED serialVars  BY <2>1, <2>9 DEF serialVars, pageVars
    <2> QED
      BY <2>1, <2>2, <2>3, <2>4, <2>5, <2>6, <2>7, <2>8, <2>9, SerialSteps
      DEF SerialNext, disconnect
  <1> QED  BY <1>1, PagesInvariant, PTL DEF Spec

=============================================================================
